---- MODULE Spec2Model ----
(***************************************************************************)
(* Model of the exam-preparation backend: account registration, profile    *)
(* update, ad-hoc question solving, the question bank upload, mock-exam    *)
(* generation and grading, and the student dashboard.                      *)
(*                                                                         *)
(* The relational tables are sequences of rows (a row's id is its index);  *)
(* every route handler is one action that ends with its commit (or its     *)
(* rollback) and leaves the HTTP answer in `response`.                     *)
(***************************************************************************)
EXTENDS Integers, Sequences, FiniteSets, TLC

VARIABLES
    users,            \* table users            (app/models/user.py User)
    user_subjects,    \* table user_subjects    (app/models/user.py UserSubject)
    past_questions,   \* table past_questions   (PastQuestion)
    exam_attempts,    \* table exam_attempts    (app/models/question.py ExamAttempt)
    question_history, \* table question_history (app/models/question.py QuestionHistory)
    sessions,         \* the requests in flight: each one's position and the rows
                      \* its database session has loaded and changed
    study_plans,      \* table study_plans      (app/models/question.py StudyPlan)
    call,             \* the last request: the route, the caller and the payload
    response          \* the answer to it

vars == <<users, user_subjects, past_questions, exam_attempts, question_history,
          sessions, study_plans, call, response>>

----------------------------------------------------------------------------
(* Bounds of the model.                                                    *)

MaxAttempts == 1       \* exam attempts created in one behaviour
MaxRotations == 2      \* orders of one random.sample outcome that are explored
MaxAnswers == 4        \* entries of a submitted answer map
MaxSolved == 1         \* ad-hoc questions solved in one behaviour

(* Program constants.                                                      *)

MinQuestions == 10        \* MockExamRequest.number_of_questions ge
MaxQuestions == 100       \* MockExamRequest.number_of_questions le
DefaultQuestions == 40    \* MockExamRequest.number_of_questions default
MinTimeLimit == 15        \* MockExamRequest.time_limit_minutes ge
MaxTimeLimit == 180       \* MockExamRequest.time_limit_minutes le
SufficientAttempts == 5   \* attempts that make a subject eligible as the weakest
DefaultTimeLimit == 60    \* MockExamRequest.time_limit_minutes default
BankDefaultQuestions == 50   \* create_mock_exam: number_of_questions or 50
BankDefaultTimeLimit == 90   \* create_mock_exam: time_limit_minutes or 90
WeakTopicsCut == 3        \* submit_exam: weak_topics_list[:3]
MantissaBits == 53        \* significand of a Python float (IEEE 754 binary64)

----------------------------------------------------------------------------
(* Python values.                                                          *)

\* Python's None where the other values are strings.
NONE == "None"

\* Optional values that are not strings: None is <<>>, a value x is <<x>>.
NoneOpt == <<>>
Some(x) == <<x>>

\* Truthiness of an Optional[str]: None and "" are falsy.
TruthyStr(s) == s # NONE /\ s # ""

Min(a, b) == IF a <= b THEN a ELSE b

\* str(n) of an int, as its sequence of characters.
RECURSIVE Digits(_)
Digits(n) ==
    IF n < 10 THEN <<n>> ELSE Append(Digits(n \div 10), n % 10)

PyStr(n) == IF n < 0 THEN <<"-">> \o Digits(0 - n) ELSE Digits(n)

\* s[i] of a Python list with an int index i (negative indices count from
\* the end); "IndexError" when i is out of range.
IndexError == "IndexError"

PyIndexOk(s, i) == (0 - Len(s)) <= i /\ i < Len(s)

PyIndex(s, i) == IF i >= 0 THEN s[i + 1] ELSE s[Len(s) + i + 1]

----------------------------------------------------------------------------
(* Python float arithmetic (IEEE 754 binary64, round to nearest even).     *)
(* A float is [bits, exp]: a significand of MantissaBits bits, most         *)
(* significant first and leading bit 1, standing for bits * 2^exp; 0.0 has *)
(* the empty significand.                                                  *)

FloatZero == [bits |-> <<>>, exp |-> 0]

\* The least s with c * 2^s >= t (c >= 1).
RECURSIVE Shift(_, _)
Shift(c, t) == IF c >= t THEN 0 ELSE 1 + Shift(2 * c, t)

RECURSIVE Pow2(_)
Pow2(n) == IF n = 0 THEN 1 ELSE 2 * Pow2(n - 1)

\* 2^i mod t, by repeated squaring.
RECURSIVE Pow2Mod(_, _)
Pow2Mod(i, t) ==
    IF i = 0 THEN 1 % t
    ELSE LET h == Pow2Mod(i \div 2, t)
         IN  (h * h * (IF i % 2 = 1 THEN 2 ELSE 1)) % t

\* The next n bits of the binary expansion of r / t (0 <= r < t), and the
\* remainder left after them: before bit i the remainder is r * 2^(i-1) mod t.
DivBits(r, t, n) ==
    [bits |-> [i \in 1..n |->
                 IF 2 * ((r * Pow2Mod(i - 1, t)) % t) >= t THEN 1 ELSE 0],
     rem |-> (r * Pow2Mod(n, t)) % t]

\* bits + 1; one bit longer when the carry runs out of the top.
BitsInc(bits) ==
    LET zeros == {i \in DOMAIN bits : bits[i] = 0} IN
    IF zeros = {} THEN <<1>> \o [i \in DOMAIN bits |-> 0]
    ELSE LET j == CHOOSE i \in zeros : \A k \in zeros : k <= i
         IN  [i \in DOMAIN bits |->
                 IF i < j THEN bits[i] ELSE IF i = j THEN 1 ELSE 0]

\* The float nearest to all * 2^exp (+ a positive rest below the last bit of
\* `all` when sticky), ties to even. `all` has at least MantissaBits bits.
RoundNearestEven(all, sticky, exp) ==
    LET d == Len(all) - MantissaBits
        keep == SubSeq(all, 1, MantissaBits)
        roundBit == IF d > 0 THEN all[MantissaBits + 1] ELSE 0
        rest == sticky \/ \E i \in (MantissaBits + 2)..Len(all) : all[i] = 1
        up == roundBit = 1 /\ (rest \/ keep[MantissaBits] = 1)
        kept == IF up THEN BitsInc(keep) ELSE keep
    IN  IF Len(kept) > MantissaBits
        THEN [bits |-> SubSeq(kept, 1, MantissaBits), exp |-> exp + d + 1]
        ELSE [bits |-> kept, exp |-> exp + d]

\* c / t of two ints (true division), 0 <= c, 0 < t.
PyTrueDiv(c, t) ==
    IF c = 0 THEN FloatZero
    ELSE LET s == Shift(c, t)
             q == DivBits(c * Pow2(s) - t, t, MantissaBits)
         IN  RoundNearestEven(<<1>> \o q.bits, q.rem # 0, 0 - MantissaBits - s)

RECURSIVE BitsValue(_)
BitsValue(bits) ==
    IF bits = <<>> THEN 0
    ELSE 2 * BitsValue(SubSeq(bits, 1, Len(bits) - 1)) + bits[Len(bits)]

\* The n low bits of v, most significant first.
IntBits(v, n) == [j \in 1..n |-> (v \div Pow2(n - j)) % 2]

RECURSIVE BitLen(_)
BitLen(v) == IF v = 0 THEN 0 ELSE 1 + BitLen(v \div 2)

\* The significand is multiplied in chunks of ChunkBits bits, least
\* significant chunk first, so that every intermediate value fits an int.
ChunkBits == 2 * 8

\* The bits of (bits * k) from chunk i upward, given the carry into chunk i.
RECURSIVE MulChunks(_, _, _, _)
MulChunks(bits, k, i, carry) ==
    LET hi == Len(bits) - ChunkBits * (i - 1)
        lo == IF hi - ChunkBits + 1 < 1 THEN 1 ELSE hi - ChunkBits + 1
        w == hi - lo + 1
        v == BitsValue(SubSeq(bits, lo, hi)) * k + carry
    IN  IF hi < 1
        THEN IntBits(carry, BitLen(carry))
        ELSE MulChunks(bits, k, i + 1, v \div Pow2(w)) \o IntBits(v % Pow2(w), w)

\* The bits of (bits * k), for a small positive int k.
MulSmall(bits, k) == MulChunks(bits, k, 1, 0)

\* f * k of a float and a small positive int.
PyFloatMul(f, k) ==
    IF f.bits = <<>> THEN FloatZero
    ELSE RoundNearestEven(MulSmall(f.bits, k), FALSE, f.exp)

\* int(f): truncation toward zero of a float 0 <= f < 2^31.
PyInt(f) ==
    IF f.bits = <<>> THEN 0
    ELSE LET n == MantissaBits + f.exp IN
         IF n <= 0 THEN 0 ELSE BitsValue(SubSeq(f.bits, 1, n))

\* The score as a number of thousandths.
ScorePerMille(correct_count, total_questions) ==
    PyInt(PyFloatMul(PyTrueDiv(correct_count, total_questions), 1000))

\* submit_exam: int((correct_count / exam.total_questions) * 100)
ScorePercentage(correct_count, total_questions) ==
    PyInt(PyFloatMul(PyTrueDiv(correct_count, total_questions), 100))

----------------------------------------------------------------------------
(* Responses.                                                              *)

NoBody == [exam_id |-> 0, total_questions |-> 0, questions |-> <<>>,
           time_limit_minutes |-> 0, correct_count |-> 0,
           score_percentage |-> 0, weak_topics |-> <<>>,
           recommendations |-> <<>>, saved |-> <<>>]

\* A request: the route, the caller and, for the exam routes, the payload
\* (MockExamRequest or ExamSubmissionRequest).
Call(op, user) ==
    [op |-> op, user |-> user,
     request |-> [exam_type |-> "", subject |-> "", year |-> NONE,
                  number_of_questions |-> 0, time_limit_minutes |-> 0],
     exam_id |-> 0, answers |-> <<>>, time_taken_seconds |-> 0]

CallCreate(u, request) == [Call("create", u) EXCEPT !.request = request]

CallSubmit(u, submission) ==
    [Call("submit", u) EXCEPT !.exam_id = submission.exam_id,
                              !.answers = submission.answers,
                              !.time_taken_seconds = submission.time_taken_seconds]

Reply(op, status, detail, body) ==
    [op |-> op, status |-> status, detail |-> detail, body |-> body]

----------------------------------------------------------------------------
(* Queries.                                                                *)

\* A query is the set of the ids (row numbers) of the rows that satisfy its
\* filter. query.first(): the lowest of these ids, 0 for None.
First(ids) ==
    IF ids = {} THEN 0 ELSE CHOOSE i \in ids : \A j \in ids : i <= j

\* The elements of a set of ints in ascending order.
Ascending(S) ==
    [i \in 1..Cardinality(S) |->
        CHOOSE x \in S : Cardinality({y \in S : y < x}) = i - 1]

----------------------------------------------------------------------------
(* POST /api/auth/register                                                 *)

\* A new UserSubject row, counters at their column default 0.
UserSubjectRow(user_id, subject_name) ==
    [user_id |-> user_id, subject_name |-> subject_name,
     total_questions_attempted |-> 0, correct_answers |-> 0]

\* register_user, for a request that gives no phone: a new account and one
\* user_subjects row per entry of the subjects list.
RegisterUser(email, subjects) ==
    /\ call' = Call("register", 0)
    /\ UNCHANGED <<past_questions, exam_attempts, question_history, sessions, study_plans>>
    /\ IF First({i \in DOMAIN users : users[i].email = email}) # 0
         THEN /\ response' = Reply("register", 400, "Email already registered", NoBody)
              /\ UNCHANGED <<users, user_subjects>>
         ELSE LET id == Len(users) + 1 IN
              /\ users' = Append(users, [email |-> email, phone |-> NONE])
              /\ user_subjects' = user_subjects \o
                     [i \in 1..Len(subjects) |-> UserSubjectRow(id, subjects[i])]
              /\ response' = Reply("register", 200, "", NoBody)

----------------------------------------------------------------------------
(* PUT /api/auth/me                                                        *)

\* The table without the rows of one user (query.filter(user_id).delete()).
WithoutRowsOf(table, u) == SelectSeq(table, LAMBDA r : r.user_id # u)

\* The subjects branch of update_my_profile: the user's rows are deleted and
\* one new row is added per entry of the list.
ReplaceSubjects(table, u, subjects) ==
    WithoutRowsOf(table, u)
    \o [i \in 1..Len(subjects) |-> UserSubjectRow(u, subjects[i])]

\* update_my_profile; update_data holds phone (NONE when not given) and
\* subjects (NoneOpt when not given).
UpdateMyProfile(u, update_data) ==
    /\ u \in DOMAIN users
    /\ call' = Call("update-profile", u)
    /\ UNCHANGED <<past_questions, exam_attempts, question_history, sessions, study_plans>>
    /\ IF /\ TruthyStr(update_data.phone)
          /\ First({i \in DOMAIN users :
                       users[i].phone = update_data.phone /\ i # u}) # 0
         THEN /\ response' = Reply("update-profile", 400,
                                   "Phone number already in use", NoBody)
              /\ UNCHANGED <<users, user_subjects>>
         ELSE /\ users' = IF TruthyStr(update_data.phone)
                          THEN [users EXCEPT ![u].phone = update_data.phone]
                          ELSE users
              /\ user_subjects' =
                    IF update_data.subjects # NoneOpt
                    THEN ReplaceSubjects(user_subjects, u, update_data.subjects[1])
                    ELSE user_subjects
              /\ response' = Reply("update-profile", 200, "", NoBody)

----------------------------------------------------------------------------
(* POST /api/questions/solve and /api/questions/solve-with-image           *)

\* The outcome of the AI call: a failure, or solution_data with the subject
\* the AI names (NONE when it names none).
Solution(error, subject) == [error |-> error, subject |-> subject]

\* "Save to database" and "Update user subject statistics", the same lines
\* in both routes: a question_history row, and the caller's row of the
\* subject counted up by one, or created with one attempted question.
RecordSolved(u, solution_data, now) ==
    LET subject_name == solution_data.subject
        user_subject == First({i \in DOMAIN user_subjects :
                                 /\ user_subjects[i].user_id = u
                                 /\ user_subjects[i].subject_name = subject_name})
    IN  /\ question_history' =
              Append(question_history,
                     [user_id |-> u, subject |-> subject_name, solved_at |-> now])
        /\ user_subjects' =
              IF ~TruthyStr(subject_name) THEN user_subjects
              ELSE IF user_subject # 0
                THEN [user_subjects EXCEPT
                        ![user_subject].total_questions_attempted = @ + 1]
              ELSE Append(user_subjects,
                          [UserSubjectRow(u, subject_name) EXCEPT
                             !.total_questions_attempted = 1])

\* The answer of solve_question; ai_calls is the number of calls of the AI
\* service made for the request.
SolveReply(status, detail, ai_calls) ==
    Reply("solve", status, detail, [ai_calls |-> ai_calls])

\* A solve_question that saves the question although the AI call failed.
SolveQuestionSavingFailures(u, request, solution_data, now) ==
    /\ u \in DOMAIN users
    /\ call' = Call("solve", u)
    /\ UNCHANGED <<users, past_questions, exam_attempts, sessions, study_plans>>
    /\ RecordSolved(u, [solution_data EXCEPT !.subject = "Mathematics"], now)
    /\ response' = SolveReply(IF solution_data.error THEN 500 ELSE 200,
                              IF solution_data.error THEN "AI service error" ELSE "", 1)

\* solve_question; request holds question_text and question_image (NONE
\* when not given), solution_data is what the one call of the AI service
\* gives (error: it raised), `now` is the day of the server clock.
SolveQuestion(u, request, solution_data, now) ==
    LET Fail(status, detail, ai_calls) ==
            /\ response' = SolveReply(status, detail, ai_calls)
            /\ UNCHANGED <<user_subjects, question_history>>
    IN  /\ u \in DOMAIN users
        /\ call' = Call("solve", u)
        /\ UNCHANGED <<users, past_questions, exam_attempts, sessions, study_plans>>
        /\ IF TruthyStr(request.question_image)
             THEN IF solution_data.error
                  THEN Fail(500, "Vision AI failed", 1)
                  ELSE /\ RecordSolved(u, solution_data, now)
                       /\ response' = SolveReply(200, "", 1)
           ELSE IF ~TruthyStr(request.question_text)
             THEN Fail(400, "Please provide either question text or image", 0)
           ELSE IF solution_data.error
             THEN Fail(500, "AI service error", 1)
           ELSE /\ RecordSolved(u, solution_data, now)
                /\ response' = SolveReply(200, "", 1)

\* solve_question_with_image; is_image: the upload is a valid image file.
SolveQuestionWithImage(u, is_image, solution_data, now) ==
    LET Fail(status, detail) ==
            /\ response' = Reply("solve-with-image", status, detail, NoBody)
            /\ UNCHANGED <<user_subjects, question_history>>
    IN  /\ u \in DOMAIN users
        /\ call' = Call("solve-with-image", u)
        /\ UNCHANGED <<users, past_questions, exam_attempts, sessions, study_plans>>
        /\ IF ~is_image
             THEN Fail(400, "File must be an image")
           ELSE IF solution_data.error
             THEN Fail(500, "Vision AI service error")
           ELSE /\ RecordSolved(u, solution_data, now)
                /\ response' = Reply("solve-with-image", 200, "", NoBody)

----------------------------------------------------------------------------
(* POST /api/past-questions/upload                                         *)

\* Whether a query inside the upload loop sees the rows added earlier in the
\* same request (the session's autoflush setting; the session factory is
\* app/core/database.py).
SessionAutoflush == TRUE

\* A pass of the loop that adds a row without looking for an existing one.
UpsertQuestionAlwaysAdding(table, committed, exam_type, subject, year, q_data) ==
    [table |-> Append(table,
                      [exam_type |-> exam_type, subject |-> subject, year |-> year,
                       question_number |-> q_data.question_number,
                       question_text |-> q_data.question_text,
                       options |-> q_data.options,
                       correct_answer |-> q_data.correct_answer,
                       topic |-> q_data.topic]),
     id |-> Len(table) + 1]

\* One pass of the loop "for q_data in valid_questions": the table after
\* q_data has been stored (updated in place, or added), and the saved row.
\* `committed` is the number of rows the table had when the request began.
UpsertQuestion(table, committed, exam_type, subject, year, q_data) ==
    LET visible == IF SessionAutoflush THEN Len(table) ELSE committed
        existing == First({i \in 1..visible :
                             /\ table[i].exam_type = exam_type
                             /\ table[i].subject = subject
                             /\ table[i].year = year
                             /\ table[i].question_number = q_data.question_number})
        row == [exam_type |-> exam_type, subject |-> subject, year |-> year,
                question_number |-> q_data.question_number,
                question_text |-> q_data.question_text,
                options |-> q_data.options,
                correct_answer |-> q_data.correct_answer,
                topic |-> q_data.topic]
    IN  IF existing # 0
        THEN [table |-> [table EXCEPT ![existing] = row], id |-> existing]
        ELSE [table |-> Append(table, row), id |-> Len(table) + 1]

\* The loop over valid_questions, in order.
RECURSIVE SaveQuestions(_, _, _, _, _, _, _)
SaveQuestions(table, committed, exam_type, subject, year, valid, saved) ==
    IF valid = <<>> THEN [table |-> table, saved |-> saved]
    ELSE LET r == UpsertQuestion(table, committed, exam_type, subject, year, valid[1])
         IN  SaveQuestions(r.table, committed, exam_type, subject, year,
                           Tail(valid), Append(saved, r.id))

\* upload_past_questions. `extraction` is what pq_processor.process_pdf gives
\* for the file: [error, questions], error standing for its ValueError.
\* The two HTTPExceptions raised inside the try block are caught by its
\* "except Exception" clause and leave as a 500.
UploadPastQuestions(u, is_pdf, exam_type, subject, year, extraction) ==
    LET questions_data == extraction.questions
        valid_questions ==
            SelectSeq(questions_data, LAMBDA q : TruthyStr(q.correct_answer))
        done == SaveQuestions(past_questions, Len(past_questions), exam_type,
                              subject, year, valid_questions, <<>>)
        Fail(status, detail) ==
            /\ response' = Reply("upload", status, detail, NoBody)
            /\ UNCHANGED past_questions
    IN  /\ u \in DOMAIN users
        /\ call' = Call("upload", u)
        /\ UNCHANGED <<users, user_subjects, exam_attempts, question_history, sessions, study_plans>>
        /\ IF ~is_pdf
             THEN Fail(400, "Only PDF files are supported")
           ELSE IF extraction.error
             THEN Fail(400, "ValueError")
           ELSE IF questions_data = <<>>
             THEN Fail(500, "Error processing PDF: No questions could be extracted")
           ELSE IF valid_questions = <<>>
             THEN Fail(500, "Error processing PDF: No questions with correct answers")
           ELSE /\ past_questions' = done.table
                /\ response' = Reply("upload", 200, "",
                                     [NoBody EXCEPT !.saved = done.saved])

----------------------------------------------------------------------------
(* POST /api/exams/create                                                  *)

\* The built-in sample question table.
SAMPLE_QUESTIONS ==
    "Mathematics" :>
        << [question |-> "Simplify: 3x + 5x - 2x", options |-> "6x,8x,10x,5x",
            correct_answer |-> "A", topic |-> "Algebraic Processes"],
           [question |-> "What is the square root of 144?", options |-> "10,11,12,13",
            correct_answer |-> "C", topic |-> "Number and Numeration"],
           [question |-> "Solve for x: 2x + 5 = 15", options |-> "3,4,5,6",
            correct_answer |-> "C", topic |-> "Linear Equations"] >>
    @@ "English Language" :>
        << [question |-> "Choose the correct spelling:",
            options |-> "Recieve,Receive,Receeve,Recive",
            correct_answer |-> "B", topic |-> "Spelling"] >>

\* A lookup that falls back to the Mathematics questions.
SampleQuestionsGetOrMathematics(subject) ==
    IF subject \in DOMAIN SAMPLE_QUESTIONS THEN SAMPLE_QUESTIONS[subject]
    ELSE SAMPLE_QUESTIONS["Mathematics"]

\* SAMPLE_QUESTIONS.get(subject, [])
SampleQuestionsGet(subject) ==
    IF subject \in DOMAIN SAMPLE_QUESTIONS THEN SAMPLE_QUESTIONS[subject] ELSE <<>>

\* s rotated left by r places.
Rotate(s, r) ==
    [i \in 1..Len(s) |-> s[((i - 1 + r) % Len(s)) + 1]]

\* The elements of a list at the given positions, in that order.
Pick(s, positions) == [i \in 1..Len(positions) |-> s[positions[i]]]

\* random.sample(pool, k): the lists of k distinct elements of pool. Every
\* choice of the k elements is explored, each in its first MaxRotations
\* rotations of the pool order.
RandomSample(pool, k) ==
    {Rotate(Pick(pool, positions), r) :
        positions \in {Ascending(S) :
                         S \in {T \in SUBSET (1..Len(pool)) : Cardinality(T) = k}},
        r \in 0..(Min(k, MaxRotations) - 1)}

\* MockExamRequest: the field constraints of number_of_questions and
\* time_limit_minutes.
ValidMockExamRequest(request) ==
    /\ request.number_of_questions >= MinQuestions
    /\ request.number_of_questions <= MaxQuestions
    /\ request.time_limit_minutes >= MinTimeLimit
    /\ request.time_limit_minutes <= MaxTimeLimit

\* The rows of the bank that create_mock_exam's query returns, in id order.
QuestionsPoolDb(request) ==
    LET ids == {i \in DOMAIN past_questions :
                  LET r == past_questions[i] IN
                  /\ r.exam_type = request.exam_type
                  /\ r.subject = request.subject
                  /\ r.correct_answer # NONE
                  /\ (TruthyStr(request.year) /\ request.year # "Random Mix"
                        => r.year = request.year)}
    IN  Pick(past_questions, Ascending(ids))

\* x or d, for an int x.
IntOr(x, d) == IF x # 0 THEN x ELSE d

\* The list returned to the student: position, text and options, the
\* correct answer hidden.
ExamQuestions(texts, options) ==
    [i \in 1..Len(texts) |->
        [question_number |-> i, question_text |-> texts[i],
         options |-> options[i], correct_answer |-> NONE]]

\* An answer key whose positions are counted from 0.
AnswerKeyZeroBased(answers) ==
    [key \in {PyStr(i - 1) : i \in 1..Len(answers)} |->
        answers[CHOOSE i \in 1..Len(answers) : PyStr(i - 1) = key]]

\* {str(i+1): q.correct_answer for i, q in enumerate(selected)}
AnswerKey(answers) ==
    [key \in {PyStr(i) : i \in 1..Len(answers)} |->
        answers[CHOOSE i \in 1..Len(answers) : PyStr(i) = key]]

\* The ExamAttempt row of a new exam.
NewExamAttempt(u, request, questions, time_limit, total) ==
    [user_id |-> u, exam_type |-> request.exam_type, subject |-> request.subject,
     year |-> request.year, questions |-> questions, user_answers |-> <<>>,
     correct_answers |-> AnswerKey([i \in 1..Len(questions) |-> questions[i].correct_answer]),
     time_limit_minutes |-> time_limit, time_taken_seconds |-> 0,
     total_questions |-> total, correct_count |-> 0, score_percentage |-> 0,
     weak_topics |-> NoneOpt, completed_at |-> NONE]

\* The answer of create_mock_exam.
CreateReply(exam_questions, time_limit) ==
    Reply("create", 200, "",
          [NoBody EXCEPT !.exam_id = Len(exam_attempts) + 1,
                         !.total_questions = Len(exam_questions),
                         !.time_limit_minutes = time_limit,
                         !.questions = exam_questions])

\* A sample that keeps every question of the pool.
SampleSizeWholePool(num_questions, pool) == Len(pool)

\* min(num_questions, len(pool)), the size of the sample drawn.
SampleSize(num_questions, pool) == Min(num_questions, Len(pool))

\* questions_for_storage: the private copy of the selected bank rows.
QuestionsForStorage(selected) ==
    [i \in 1..Len(selected) |->
        [question |-> selected[i].question_text,
         options |-> selected[i].options,
         correct_answer |-> selected[i].correct_answer,
         topic |-> IF TruthyStr(selected[i].topic)
                   THEN selected[i].topic ELSE "Unknown"]]

\* The attempt stored by the bank path for a sample of bank rows.
BankAttempt(u, request, selected) ==
    NewExamAttempt(u, request, QuestionsForStorage(selected),
                   IntOr(request.time_limit_minutes, BankDefaultTimeLimit),
                   Len(selected))

\* The bank path: the pool of past questions is not empty.
CreateFromBank(u, request, pool) ==
    LET num_questions == IntOr(request.number_of_questions, BankDefaultQuestions)
    IN  \E selected \in RandomSample(pool, SampleSize(num_questions, pool)) :
          LET exam_questions ==
                  ExamQuestions([i \in 1..Len(selected) |-> selected[i].question_text],
                                [i \in 1..Len(selected) |-> selected[i].options])
          IN  /\ exam_attempts' = Append(exam_attempts, BankAttempt(u, request, selected))
              /\ response' = CreateReply(exam_questions,
                                 IntOr(request.time_limit_minutes, BankDefaultTimeLimit))

\* The attempt stored by the fallback path for a sample of sample questions.
SampleAttempt(u, request, selected) ==
    NewExamAttempt(u, request, selected, request.time_limit_minutes, Len(selected))

\* The fallback path: the built-in sample questions of the subject.
CreateFromSample(u, request, pool) ==
    \E selected \in RandomSample(pool, SampleSize(request.number_of_questions, pool)) :
      LET exam_questions ==
              ExamQuestions([i \in 1..Len(selected) |-> selected[i].question],
                            [i \in 1..Len(selected) |-> selected[i].options])
      IN  /\ exam_attempts' = Append(exam_attempts, SampleAttempt(u, request, selected))
          /\ response' = CreateReply(exam_questions, request.time_limit_minutes)

\* create_mock_exam
CreateMockExam(u, request) ==
    LET questions_pool_db == QuestionsPoolDb(request)
        questions_pool == SampleQuestionsGet(request.subject)
    IN  /\ u \in DOMAIN users
        /\ call' = CallCreate(u, request)
        /\ UNCHANGED <<users, user_subjects, past_questions, question_history, sessions, study_plans>>
        /\ IF ~ValidMockExamRequest(request)
             THEN /\ response' = Reply("create", 422, "validation", NoBody)
                  /\ UNCHANGED exam_attempts
           ELSE IF questions_pool_db # <<>>
             THEN CreateFromBank(u, request, questions_pool_db)
           ELSE IF questions_pool = <<>>
             THEN /\ response' = Reply("create", 400, "No questions available", NoBody)
                  /\ UNCHANGED exam_attempts
           ELSE CreateFromSample(u, request, questions_pool)

----------------------------------------------------------------------------
(* POST /api/exams/submit                                                  *)

\* A Python dict of counters is the list of its [topic, misses] items in
\* insertion order. weak_topics[topic] = weak_topics.get(topic, 0) + 1
CountMiss(weak_topics, topic) ==
    LET at == First({i \in DOMAIN weak_topics : weak_topics[i].topic = topic}) IN
    IF at = 0 THEN Append(weak_topics, [topic |-> topic, misses |-> 1])
    ELSE [weak_topics EXCEPT ![at].misses = @ + 1]

\* A lookup of the correct answer in the question bank as it is now: the
\* q_num-th marked row of the exam's type and subject.
CorrectAnswerFromBank(exam, q_num) ==
    LET pool == Pick(past_questions,
                     Ascending({i \in DOMAIN past_questions :
                                  /\ past_questions[i].exam_type = exam.exam_type
                                  /\ past_questions[i].subject = exam.subject
                                  /\ past_questions[i].correct_answer # NONE}))
    IN  IF q_num \in DOMAIN pool THEN pool[q_num].correct_answer ELSE NONE

\* exam.correct_answers.get(str(q_num))
CorrectAnswerOf(exam, q_num) ==
    IF PyStr(q_num) \in DOMAIN exam.correct_answers
    THEN exam.correct_answers[PyStr(q_num)] ELSE NONE

\* A comparison of the labels that ignores their case.
IsCorrectIgnoringCase(user_answer, correct_answer) ==
    LET Upper(label) == CASE label = "a" -> "A"
                          [] label = "b" -> "B"
                          [] label = "c" -> "C"
                          [] label = "d" -> "D"
                          [] OTHER -> label
    IN  Upper(user_answer) = Upper(correct_answer)

\* is_correct = user_answer == correct_answer
IsCorrect(user_answer, correct_answer) == user_answer = correct_answer

\* One pass of the loop "for q_num, user_answer in submission.answers.items()".
\* exam.questions[int(q_num) - 1] raises IndexError outside the list.
GradeAnswer(exam, acc, q_num, user_answer) ==
    LET correct_answer == CorrectAnswerOf(exam, q_num)
        is_correct == IsCorrect(user_answer, correct_answer)
    IN  IF ~PyIndexOk(exam.questions, q_num - 1)
        THEN [acc EXCEPT !.error = IndexError]
        ELSE LET question == PyIndex(exam.questions, q_num - 1) IN
             [correct_count |-> IF is_correct THEN acc.correct_count + 1
                                ELSE acc.correct_count,
              weak_topics |-> IF is_correct THEN acc.weak_topics
                              ELSE CountMiss(acc.weak_topics, question.topic),
              detailed_results |->
                  Append(acc.detailed_results,
                         [question_number |-> q_num,
                          question_text |-> question.question,
                          user_answer |-> user_answer,
                          correct_answer |-> correct_answer,
                          is_correct |-> is_correct,
                          topic |-> question.topic]),
              error |-> acc.error]

\* The grading loop over items lo..hi of the answer map, in their order; it
\* ends at the first IndexError. (The range is folded by halves.)
RECURSIVE GradeLoop(_, _, _, _, _)
GradeLoop(exam, answers, lo, hi, acc) ==
    IF lo > hi \/ acc.error # NONE THEN acc
    ELSE IF lo = hi
      THEN GradeAnswer(exam, acc, answers[lo].q_num, answers[lo].answer)
    ELSE LET mid == (lo + hi) \div 2
         IN  GradeLoop(exam, answers, mid + 1, hi,
                       GradeLoop(exam, answers, lo, mid, acc))

Grade(exam, answers) ==
    GradeLoop(exam, answers, 1, Len(answers),
              [correct_count |-> 0, weak_topics |-> <<>>,
               detailed_results |-> <<>>, error |-> NONE])

Reverse(s) == [i \in 1..Len(s) |-> s[Len(s) + 1 - i]]

\* item put into a list sorted by ascending misses, after the items that
\* do not exceed it (a stable insertion).
InsertByMisses(sorted, item) ==
    LET n == Cardinality({i \in DOMAIN sorted : sorted[i].misses <= item.misses})
    IN  SubSeq(sorted, 1, n) \o <<item>> \o SubSeq(sorted, n + 1, Len(sorted))

RECURSIVE StableSortByMisses(_)
StableSortByMisses(items) ==
    IF items = <<>> THEN <<>>
    ELSE InsertByMisses(StableSortByMisses(SubSeq(items, 1, Len(items) - 1)),
                        items[Len(items)])

\* A descending sort that turns equal items round.
SortedByMissesTiesReversed(items) ==
    Reverse(StableSortByMisses(items))

\* sorted(weak_topics.items(), key=lambda x: x[1], reverse=True): list.sort
\* reverses the list, sorts it stably in ascending order and reverses the
\* result, which keeps equal items in their original order.
SortedByMissesReverse(items) ==
    Reverse(StableSortByMisses(Reverse(items)))

\* [topic for topic, _ in weak_topics_list[:3]]
WeakTopicsNames(weak_topics) ==
    LET weak_topics_list == SortedByMissesReverse(weak_topics)
    IN  [i \in 1..Min(WeakTopicsCut, Len(weak_topics_list)) |->
            weak_topics_list[i].topic]

\* Recommendations that take 50 itself for a score below the pass mark.
RecommendationsAtPassMark(score_percentage, weak_topics_names) ==
    (IF score_percentage <= 50 THEN <<"fundamentals">> ELSE <<>>)
    \o (IF weak_topics_names # <<>> THEN <<"weak-topics">> ELSE <<>>)
    \o (IF score_percentage >= 70 THEN <<"congratulations">> ELSE <<>>)

\* Recommendations that congratulate whatever the score.
RecommendationsAlwaysCongratulating(score_percentage, weak_topics_names) ==
    (IF score_percentage < 50 THEN <<"fundamentals">> ELSE <<>>)
    \o (IF weak_topics_names # <<>> THEN <<"weak-topics">> ELSE <<>>)
    \o <<"congratulations">>

\* The templated recommendations, each named by its kind.
Recommendations(score_percentage, weak_topics_names) ==
    (IF score_percentage < 50 THEN <<"fundamentals">> ELSE <<>>)
    \o (IF weak_topics_names # <<>> THEN <<"weak-topics">> ELSE <<>>)
    \o (IF score_percentage >= 70 THEN <<"congratulations">> ELSE <<>>)

\* submission.answers as stored in the JSON column user_answers: its items
\* in order, the int keys written as strings.
StoredAnswers(answers) ==
    [i \in 1..Len(answers) |->
        [q_num |-> PyStr(answers[i].q_num), answer |-> answers[i].answer]]

\* The query of submit_exam without its owner filter.
FindExamAnyOwner(u, exam_id) ==
    IF exam_id \in DOMAIN exam_attempts THEN exam_id ELSE 0

\* The query of submit_exam: the attempt with that id owned by the caller,
\* 0 for None.
FindExam(u, exam_id) ==
    IF exam_id \in DOMAIN exam_attempts /\ exam_attempts[exam_id].user_id = u
    THEN exam_id ELSE 0

\* A check of completed_at that never refuses.
AlreadySubmittedIgnored(exam) == FALSE

\* if exam.completed_at
AlreadySubmitted(exam) == exam.completed_at # NONE

\* A counter update that takes the user's first row, whatever its subject.
UserSubjectsGradedAnySubject(table, exam, correct_count) ==
    LET user_subject == First({i \in DOMAIN table : table[i].user_id = exam.user_id})
    IN  IF user_subject = 0 THEN table
        ELSE [table EXCEPT
                ![user_subject].total_questions_attempted = @ + exam.total_questions,
                ![user_subject].correct_answers = @ + correct_count]

\* "Update user subject performance": the first row of the attempt's user
\* and subject, if there is one, is counted up.
UserSubjectsGraded(table, exam, correct_count) ==
    LET user_subject == First({i \in DOMAIN table :
                                 /\ table[i].user_id = exam.user_id
                                 /\ table[i].subject_name = exam.subject})
    IN  IF user_subject = 0 THEN table
        ELSE [table EXCEPT
                ![user_subject].total_questions_attempted = @ + exam.total_questions,
                ![user_subject].correct_answers = @ + correct_count]

\* The attempt row once the handler has set its result fields.
GradedAttempt(exam, submission, correct_count, score_percentage, weak_topics_names) ==
    [exam EXCEPT !.user_answers = StoredAnswers(submission.answers),
                 !.time_taken_seconds = submission.time_taken_seconds,
                 !.correct_count = correct_count,
                 !.score_percentage = score_percentage,
                 !.weak_topics = Some(weak_topics_names),
                 !.completed_at = "utcnow"]

\* The ExamResultResponse of a graded attempt.
ExamResult(id, exam, correct_count, score_percentage, weak_topics_names) ==
    [NoBody EXCEPT
       !.exam_id = id,
       !.total_questions = exam.total_questions,
       !.correct_count = correct_count,
       !.score_percentage = score_percentage,
       !.weak_topics = weak_topics_names,
       !.recommendations = Recommendations(score_percentage, weak_topics_names)]

\* A result whose score is halved for a submission that took over 40 seconds.
StoreResultPenalisingTime(id, exam, submission, correct_count, score_percentage, weak_topics_names) ==
    LET penalised == IF submission.time_taken_seconds > 40
                     THEN score_percentage \div 2 ELSE score_percentage
    IN  /\ exam_attempts' =
              [exam_attempts EXCEPT ![id] =
                  GradedAttempt(exam, submission, correct_count, penalised,
                                weak_topics_names)]
        /\ user_subjects' = UserSubjectsGraded(user_subjects, exam, correct_count)
        /\ response' =
              Reply("submit", 200, "",
                    ExamResult(id, exam, correct_count, penalised, weak_topics_names))

\* The rows written and the answer given once the answers are graded.
StoreResult(id, exam, submission, correct_count, score_percentage, weak_topics_names) ==
        /\ exam_attempts' =
              [exam_attempts EXCEPT ![id] =
                  GradedAttempt(exam, submission, correct_count, score_percentage,
                                weak_topics_names)]
        /\ user_subjects' = UserSubjectsGraded(user_subjects, exam, correct_count)
        /\ response' =
              Reply("submit", 200, "",
                    ExamResult(id, exam, correct_count, score_percentage,
                               weak_topics_names))

\* submit_exam
SubmitExam(u, submission) ==
    LET id == FindExam(u, submission.exam_id)
        Fail(status, detail) ==
            /\ response' = Reply("submit", status, detail, NoBody)
            /\ UNCHANGED <<exam_attempts, user_subjects>>
    IN  /\ u \in DOMAIN users
        /\ call' = CallSubmit(u, submission)
        /\ UNCHANGED <<users, past_questions, question_history, sessions, study_plans>>
        /\ IF id = 0
             THEN Fail(404, "Exam not found")
           ELSE IF AlreadySubmitted(exam_attempts[id])
             THEN Fail(400, "Exam already submitted")
           ELSE \E graded \in {Grade(exam_attempts[id], submission.answers)} :
                  IF graded.error # NONE
                  THEN Fail(500, graded.error)
                  ELSE \E score_percentage \in
                            {ScorePercentage(graded.correct_count,
                                             exam_attempts[id].total_questions)},
                          weak_topics_names \in {WeakTopicsNames(graded.weak_topics)} :
                         StoreResult(id, exam_attempts[id], submission,
                                     graded.correct_count, score_percentage,
                                     weak_topics_names)

----------------------------------------------------------------------------
(* POST /api/exams/submit, request by request.                             *)
(*                                                                         *)
(* Every request has a database session of its own. The handler reads the  *)
(* attempt and checks completed_at, grades and reads the subject row, and  *)
(* commits; the steps of requests in flight interleave. A session reads    *)
(* the rows as committed when it reads them, and its own changes reach the *)
(* tables at its commit.                                                   *)

\* A session whose request has just arrived.
OpenSession(u, submission) ==
    [user |-> u, submission |-> submission, pc |-> "query",
     exam_id |-> 0, exam |-> NoneOpt,
     user_subject |-> 0, total_questions_attempted |-> 0, correct_answers |-> 0,
     subject |-> NONE, solved_at |-> 0,
     response |-> Reply("none", 0, "", NoBody)]

\* The session once its request is answered.
Answered(session, status, detail, body) ==
    [session EXCEPT !.pc = "done",
                    !.response = Reply("submit", status, detail, body)]

\* db.commit(): the attempt row and the counters held by the session are
\* written to the tables.
CommitAttempts(table, session) ==
    [table EXCEPT ![session.exam_id] = session.exam[1]]

CommitUserSubjects(table, session) ==
    IF session.user_subject = 0 THEN table
    ELSE [table EXCEPT
            ![session.user_subject].total_questions_attempted =
                session.total_questions_attempted,
            ![session.user_subject].correct_answers = session.correct_answers]

\* A request arrives and its session is opened.
SubmitArrives(u, submission) ==
    /\ u \in DOMAIN users
    /\ sessions' = Append(sessions, OpenSession(u, submission))
    /\ call' = CallSubmit(u, submission)
    /\ UNCHANGED <<study_plans, users, user_subjects, past_questions, exam_attempts,
                   question_history, response>>

\* "Get exam attempt" and the check of completed_at (exams.py 203-218).
SubmitQueries(r) ==
    LET session == sessions[r]
        id == FindExam(session.user, session.submission.exam_id)
        Fail(status, detail) ==
            /\ sessions' = [sessions EXCEPT ![r] = Answered(session, status, detail, NoBody)]
            /\ response' = Reply("submit", status, detail, NoBody)
    IN  /\ session.pc = "query"
        /\ IF id = 0
             THEN Fail(404, "Exam not found")
           ELSE IF AlreadySubmitted(exam_attempts[id])
             THEN Fail(400, "Exam already submitted")
           ELSE /\ sessions' = [sessions EXCEPT ![r].pc = "grade",
                                                ![r].exam_id = id,
                                                ![r].exam = Some(exam_attempts[id])]
                /\ UNCHANGED response
        /\ UNCHANGED <<study_plans, users, user_subjects, past_questions, exam_attempts,
                       question_history, call>>

\* Grading, the result fields of the attempt and the counters of the subject
\* row as read now (exams.py 221-269), all held in the session.
SubmitGrades(r) ==
    LET session == sessions[r]
        exam == session.exam[1]
    IN  /\ session.pc = "grade"
        /\ \E graded \in {Grade(exam, session.submission.answers)} :
              IF graded.error # NONE
              THEN /\ sessions' = [sessions EXCEPT
                                    ![r] = Answered(session, 500, graded.error, NoBody)]
                   /\ response' = Reply("submit", 500, graded.error, NoBody)
              ELSE \E score_percentage \in
                        {ScorePercentage(graded.correct_count, exam.total_questions)},
                      weak_topics_names \in {WeakTopicsNames(graded.weak_topics)},
                      counted \in {UserSubjectsGraded(user_subjects, exam,
                                                      graded.correct_count)} :
                     LET user_subject ==
                             First({i \in DOMAIN user_subjects :
                                      counted[i] # user_subjects[i]})
                     IN  /\ sessions' =
                              [sessions EXCEPT
                                 ![r].pc = "commit",
                                 ![r].exam =
                                     Some(GradedAttempt(exam, session.submission,
                                                        graded.correct_count,
                                                        score_percentage,
                                                        weak_topics_names)),
                                 ![r].user_subject = user_subject,
                                 ![r].total_questions_attempted =
                                     IF user_subject = 0 THEN 0
                                     ELSE counted[user_subject].total_questions_attempted,
                                 ![r].correct_answers =
                                     IF user_subject = 0 THEN 0
                                     ELSE counted[user_subject].correct_answers]
                         /\ UNCHANGED response
        /\ UNCHANGED <<study_plans, users, user_subjects, past_questions, exam_attempts,
                       question_history, call>>

\* db.commit() and the answer (exams.py 271-291).
SubmitCommits(r) ==
    LET session == sessions[r]
        exam == session.exam[1]
        body == ExamResult(session.exam_id, exam, exam.correct_count,
                           exam.score_percentage, exam.weak_topics[1])
    IN  /\ session.pc = "commit"
        /\ exam_attempts' = CommitAttempts(exam_attempts, session)
        /\ user_subjects' = CommitUserSubjects(user_subjects, session)
        /\ sessions' = [sessions EXCEPT ![r] = Answered(session, 200, "", body)]
        /\ response' = Reply("submit", 200, "", body)
        /\ UNCHANGED <<study_plans, users, past_questions, question_history, call>>

----------------------------------------------------------------------------
(* POST /api/questions/solve, request by request.                          *)
(*                                                                         *)
(* The steps of a text question: the AI call, the read of the subject row  *)
(* with the new counter computed from it, and the commit.                  *)

\* The request arrives and the AI is called (questions.py 63-123); a failed
\* call is answered at once.
SolveArrives(u, solution_data, now) ==
    LET session == [OpenSession(u, [exam_id |-> 0, answers |-> <<>>,
                                      time_taken_seconds |-> 0]) EXCEPT
                       !.pc = "solve-read",
                       !.subject = solution_data.subject,
                       !.solved_at = now]
    IN  /\ u \in DOMAIN users
        /\ call' = Call("solve", u)
        /\ IF solution_data.error
             THEN /\ sessions' = Append(sessions,
                                        [session EXCEPT
                                           !.pc = "done",
                                           !.response = Reply("solve", 500,
                                                              "AI service error", NoBody)])
                  /\ response' = Reply("solve", 500, "AI service error", NoBody)
             ELSE /\ sessions' = Append(sessions, session)
                  /\ UNCHANGED response
        /\ UNCHANGED <<study_plans, users, user_subjects, past_questions, exam_attempts,
                       question_history>>

\* "Update user subject statistics" (questions.py 139-156): the row is read
\* and the session holds its counter plus one, or a new row to add.
SolveReads(r) ==
    LET session == sessions[r]
        user_subject == IF ~TruthyStr(session.subject) THEN 0
                        ELSE First({i \in DOMAIN user_subjects :
                                      /\ user_subjects[i].user_id = session.user
                                      /\ user_subjects[i].subject_name = session.subject})
    IN  /\ session.pc = "solve-read"
        /\ sessions' =
              [sessions EXCEPT
                 ![r].pc = "solve-commit",
                 ![r].user_subject = user_subject,
                 ![r].total_questions_attempted =
                     IF user_subject = 0 THEN 1
                     ELSE user_subjects[user_subject].total_questions_attempted + 1]
        /\ UNCHANGED <<study_plans, users, user_subjects, past_questions, exam_attempts,
                       question_history, call, response>>

\* db.commit() of a solved question: the history row, and the counter held
\* by the session (or its new row) are written to the tables.
CommitSolved(table, session) ==
    IF ~TruthyStr(session.subject) THEN table
    ELSE IF session.user_subject # 0
      THEN [table EXCEPT ![session.user_subject].total_questions_attempted =
                             session.total_questions_attempted]
    ELSE Append(table, [UserSubjectRow(session.user, session.subject) EXCEPT
                           !.total_questions_attempted =
                               session.total_questions_attempted])

\* db.commit() and the answer (questions.py 158-175).
SolveCommits(r) ==
    LET session == sessions[r]
    IN  /\ session.pc = "solve-commit"
        /\ question_history' =
              Append(question_history,
                     [user_id |-> session.user, subject |-> session.subject,
                      solved_at |-> session.solved_at])
        /\ user_subjects' = CommitSolved(user_subjects, session)
        /\ sessions' = [sessions EXCEPT
                          ![r].pc = "done",
                          ![r].response = Reply("solve", 200, "", NoBody)]
        /\ response' = Reply("solve", 200, "", NoBody)
        /\ UNCHANGED <<study_plans, users, past_questions, exam_attempts, call>>

----------------------------------------------------------------------------
(* GET /api/dashboard/student/overview                                     *)

\* round(x, 2) of a float 0 <= x < 2^31, as the number of hundredths of the
\* result: the decimal with two places nearest to the exact value of x,
\* ties to the even last digit.
PyRound2(x) ==
    IF x.bits = <<>> THEN 0
    ELSE LET all == MulSmall(x.bits, 100)
             n == Len(all) + x.exp
             whole == IF n <= 0 THEN 0 ELSE BitsValue(SubSeq(all, 1, n))
             roundBit == IF n < 0 THEN 0 ELSE all[n + 1]
             rest == \E i \in (n + 2)..Len(all) : i >= 1 /\ all[i] = 1
             up == roundBit = 1 /\ (rest \/ whole % 2 = 1)
         IN  IF up THEN whole + 1 ELSE whole

\* One entry of subject_stats; "accuracy" is in hundredths (0 for
\* "round(accuracy, 2) if accuracy else 0" when accuracy is None or 0.0).
SubjectStat(subject) ==
    [subject |-> subject.subject_name,
     questions_attempted |-> subject.total_questions_attempted,
     accuracy |-> IF subject.total_questions_attempted > 0
                    THEN PyRound2(PyFloatMul(PyTrueDiv(subject.correct_answers,
                                                       subject.total_questions_attempted),
                                             100))
                    ELSE 0]

\* current_user.subjects: the rows of the user, in table order.
SubjectsOfUser(table, u) == SelectSeq(table, LAMBDA r : r.user_id = u)

\* subject_stats.sort(key=lambda x: x["accuracy"]): ascending, and stable.
SortedByAccuracy(subject_stats) ==
    [p \in 1..Len(subject_stats) |->
        subject_stats[
            CHOOSE i \in 1..Len(subject_stats) :
                Cardinality({j \in 1..Len(subject_stats) :
                               \/ subject_stats[j].accuracy < subject_stats[i].accuracy
                               \/ /\ subject_stats[j].accuracy = subject_stats[i].accuracy
                                  /\ j < i}) = p - 1]]

\* The list with every entry kept, whatever its number of attempts.
SubjectsWithAnyData(subject_stats) ==
    SelectSeq(subject_stats, LAMBDA s : s.questions_attempted >= 0)

\* [s for s in subject_stats if s["questions_attempted"] >= 5]
SubjectsWithSufficientData(subject_stats) ==
    SelectSeq(subject_stats, LAMBDA s : s.questions_attempted >= SufficientAttempts)

\* The distinct dates of the user's question history.
ActivityDates(history, u) ==
    {history[i].solved_at : i \in {j \in DOMAIN history : history[j].user_id = u}}

\* The elements of a set of ints in descending order (order_by(... .desc())).
Descending(S) ==
    [i \in 1..Cardinality(S) |->
        CHOOSE x \in S : Cardinality({y \in S : y > x}) = i - 1]

\* The loop of calculate_study_streak from the i-th activity date on.
RECURSIVE StreakLoop(_, _, _, _)
StreakLoop(activity_dates, i, streak, current_date) ==
    IF i > Len(activity_dates) THEN streak
    ELSE IF \/ activity_dates[i] = current_date
            \/ activity_dates[i] = current_date - streak
      THEN StreakLoop(activity_dates, i + 1, streak + 1, activity_dates[i])
      ELSE streak

\* calculate_study_streak(user_id, db), `today` being datetime.utcnow().date()
CalculateStudyStreak(history, u, today) ==
    StreakLoop(Descending(ActivityDates(history, u)), 1, 0, today)

\* get_student_dashboard: the counts, the streak, the subject statistics and
\* the weakest subject of the answer (the user block, the weekly count, the
\* average score and the study plan are left out). Nothing is written.
GetStudentDashboard(u, today) ==
    /\ u \in DOMAIN users
    /\ \E subject_stats \in {SortedByAccuracy([i \in 1..Len(SubjectsOfUser(user_subjects, u)) |->
                                  SubjectStat(SubjectsOfUser(user_subjects, u)[i])])} :
         LET subjects_with_sufficient_data == SubjectsWithSufficientData(subject_stats)
         IN  response' =
               Reply("dashboard", 200, "",
                     [total_questions_solved |->
                          Cardinality({i \in DOMAIN question_history :
                                          question_history[i].user_id = u}),
                      questions_today |->
                          Cardinality({i \in DOMAIN question_history :
                                          /\ question_history[i].user_id = u
                                          /\ question_history[i].solved_at = today}),
                      total_exams_taken |->
                          Cardinality({i \in DOMAIN exam_attempts :
                                          /\ exam_attempts[i].user_id = u
                                          /\ exam_attempts[i].completed_at # NONE}),
                      study_streak_days |-> CalculateStudyStreak(question_history, u, today),
                      subject_performance |-> subject_stats,
                      weakest_subject |->
                          IF subjects_with_sufficient_data # <<>>
                            THEN subjects_with_sufficient_data[1].subject
                            ELSE NONE])
    /\ call' = Call("dashboard", u)
    /\ UNCHANGED <<users, user_subjects, past_questions, exam_attempts,
                   question_history, sessions, study_plans>>

----------------------------------------------------------------------------
(* YouTubeService.search_educational_video                                 *)
(*                                                                         *)
(* A reply of the YouTube Data API is [error, items]: error is "http" when *)
(* requests.get or raise_for_status raises, items is the list of the       *)
(* "items" key, each a video id or "" for an item without id.videoId.      *)

ApiReply(error, items) == [error |-> error, items |-> items]

\* The dictionary built from the first item of a reply; "KeyError" when the
\* item has no video id.
VideoInformation(data) ==
    IF data.items[1] = "" THEN "KeyError"
    ELSE "https://www.youtube.com/watch?v=" \o data.items[1]

\* _fallback_search, given the reply to its request: the video or NONE.
FallbackSearch(reply) ==
    IF reply.error # NONE THEN NONE
    ELSE IF reply.items = <<>> THEN NONE
    ELSE IF VideoInformation(reply) = "KeyError" THEN NONE
    ELSE VideoInformation(reply)

\* search_educational_video, given the replies the API gives to the primary
\* and to the fallback request: the queries sent, in order, and the video
\* returned (NONE for None).
SearchEducationalVideo(subject, topic, primary, fallback) ==
    /\ call' = Call("search-video", 0)
    /\ response' =
          Reply("search-video", 0, "",
                IF primary.error # NONE
                  THEN [queries |-> << topic \o " " \o subject >>, video |-> NONE]
                ELSE IF primary.items = <<>>
                  THEN [queries |-> << topic \o " " \o subject,
                                       topic \o " " \o subject \o " tutorial" >>,
                        video |-> FallbackSearch(fallback)]
                ELSE IF VideoInformation(primary) = "KeyError"
                  THEN [queries |-> << topic \o " " \o subject >>, video |-> NONE]
                ELSE [queries |-> << topic \o " " \o subject >>,
                      video |-> VideoInformation(primary)])
    /\ UNCHANGED <<users, user_subjects, past_questions, exam_attempts,
                   question_history, sessions, study_plans>>

----------------------------------------------------------------------------
(* The requests explored.                                                  *)

\* Two students: one registers with a subject, the other with none.
Registrations ==
    { [email |-> "ada@school.ng", subjects |-> <<"Mathematics">>],
      [email |-> "bayo@school.ng", subjects |-> <<>>] }

\* What the extraction of an uploaded paper can give.
Extracted(number, text, answer, topic) ==
    [question_number |-> number, question_text |-> text, options |-> "w,x,y,z",
     correct_answer |-> answer, topic |-> topic]

PaperFirst ==
    [error |-> FALSE,
     questions |-> << Extracted(1, "2 + 2", "A", "Algebra"),
                      Extracted(2, "Area of a square", "B", NONE),
                      Extracted(3, "Unmarked", NONE, "Algebra") >>]

PaperRevised ==
    [error |-> FALSE,
     questions |-> << Extracted(1, "2 + 3", "B", "Geometry") >>]

PaperUnmarked ==
    [error |-> FALSE, questions |-> << Extracted(1, "2 + 2", NONE, "Algebra") >>]

PaperBlank == [error |-> FALSE, questions |-> <<>>]

PaperUnreadable == [error |-> TRUE, questions |-> <<>>]

File(is_pdf, paper) == [is_pdf |-> is_pdf, paper |-> paper]

Files ==
    { File(TRUE, PaperFirst), File(TRUE, PaperRevised), File(TRUE, PaperUnmarked),
      File(TRUE, PaperBlank), File(TRUE, PaperUnreadable), File(FALSE, PaperFirst) }

Request(exam_type, subject, year, n, limit) ==
    [exam_type |-> exam_type, subject |-> subject, year |-> year,
     number_of_questions |-> n, time_limit_minutes |-> limit]

ExamRequests ==
    { Request("WAEC", "Mathematics", "Random Mix", MinQuestions, DefaultTimeLimit),
      Request("WAEC", "Mathematics", "2022", MinQuestions, DefaultTimeLimit),
      Request("WAEC", "Chemistry", NONE, DefaultQuestions, DefaultTimeLimit),
      Request("WAEC", "Mathematics", NONE, MinQuestions - 1, DefaultTimeLimit) }

Answer(q_num, answer) == [q_num |-> q_num, answer |-> answer]

AnswerMaps ==
    { <<>>,
      << Answer(1, "A"), Answer(2, "B") >>,
      << Answer(0, "B") >>,
      << Answer(4, "A") >> }

Submission(exam_id, answers, time_taken) ==
    [exam_id |-> exam_id, answers |-> answers, time_taken_seconds |-> time_taken]

\* The answer maps above sent after 30 seconds, and one sent after 45.
Submissions(exam_id) ==
    {Submission(exam_id, answers, 30) : answers \in AnswerMaps}
    \cup {Submission(exam_id, << Answer(2, "a"), Answer(1, "C") >>, 45)}

----------------------------------------------------------------------------
(* Initial state: empty tables.                                            *)

Init ==
    /\ users = <<>>
    /\ user_subjects = <<>>
    /\ past_questions = <<>>
    /\ exam_attempts = <<>>
    /\ question_history = <<>>
    /\ sessions = <<>>
    /\ study_plans = <<>>
    /\ call = Call("none", 0)
    /\ response = Reply("none", 0, "", NoBody)

Register ==
    \E user_data \in Registrations :
        RegisterUser(user_data.email, user_data.subjects)

Upload ==
    \E u \in DOMAIN users, file \in Files :
        UploadPastQuestions(u, file.is_pdf, "WAEC", "Mathematics", "2023", file.paper)

Create ==
    /\ Len(exam_attempts) < MaxAttempts
    /\ \E u \in DOMAIN users, request \in ExamRequests : CreateMockExam(u, request)

Submit ==
    \E u \in DOMAIN users, exam_id \in 1..(Len(exam_attempts) + 1) :
        \E submission \in Submissions(exam_id) : SubmitExam(u, submission)

Next == Register \/ Upload \/ Create \/ Submit

Spec == Init /\ [][Next]_vars

----------------------------------------------------------------------------
(* Exam generation from a larger bank.                                     *)
(*                                                                         *)
(* The state after one student registered and a paper of n marked          *)
(* questions was uploaded; exams are then created from it.                 *)

\* The tables after register_user for the first registration.
StudentRegistered ==
    /\ users = << [email |-> "ada@school.ng", phone |-> NONE] >>
    /\ user_subjects = << [user_id |-> 1, subject_name |-> "Mathematics",
                           total_questions_attempted |-> 0, correct_answers |-> 0] >>

Topics == << "Algebra", "Algebra", "Geometry", "Trigonometry", NONE >>

\* A paper of n marked questions: answers A, B, A, B ... and the topics of
\* Topics in turn.
MarkedPaper(n) ==
    [i \in 1..n |->
        Extracted(i, "Question " \o ToString(i),
                  IF i % 2 = 1 THEN "A" ELSE "B",
                  Topics[((i - 1) % Len(Topics)) + 1])]

\* The bank after the upload of that paper into an empty bank.
BankOf(n) ==
    SaveQuestions(<<>>, 0, "WAEC", "Mathematics", "2023", MarkedPaper(n), <<>>).table

\* Bank sizes below, at and above the smallest count a request may ask for.
BankSizes == {MinQuestions - 1, MinQuestions + 1, MinQuestions + 2}

InitCreate ==
    /\ StudentRegistered
    /\ past_questions \in {BankOf(n) : n \in BankSizes}
    /\ exam_attempts = <<>>
    /\ question_history = <<>>
    /\ sessions = <<>>
    /\ study_plans = <<>>
    /\ call = Call("none", 0)
    /\ response = Reply("none", 0, "", NoBody)

CreateRequests ==
    { Request("WAEC", "Mathematics", "2023", MinQuestions, DefaultTimeLimit),
      Request("WAEC", "Mathematics", "Random Mix", MinQuestions + 1, MinTimeLimit),
      Request("WAEC", "Mathematics", NONE, MaxQuestions, MaxTimeLimit),
      Request("JAMB", "Mathematics", NONE, MinQuestions, DefaultTimeLimit),
      Request("WAEC", "English Language", "2023", MaxQuestions, DefaultTimeLimit),
      Request("WAEC", "Mathematics", "2023", MaxQuestions + 1, DefaultTimeLimit) }

CreateFromLargeBank ==
    /\ Len(exam_attempts) < MaxAttempts
    /\ \E request \in CreateRequests : CreateMockExam(1, request)

SpecCreate == InitCreate /\ [][CreateFromLargeBank]_vars

----------------------------------------------------------------------------
(* Grading of one fresh attempt.                                           *)
(*                                                                         *)
(* The state after a student registered, a paper of five marked questions  *)
(* was uploaded and an exam was created from it; the attempt is then       *)
(* submitted once, with any answer map of at most MaxAnswers entries.      *)

GradedPaperSize == Len(Topics)

GradeRequest == Request("WAEC", "Mathematics", "2023", MinQuestions, DefaultTimeLimit)

InitGrade ==
    /\ StudentRegistered
    /\ past_questions = BankOf(GradedPaperSize)
    /\ exam_attempts \in
          { << BankAttempt(1, GradeRequest, selected) >> :
               selected \in RandomSample(BankOf(GradedPaperSize),
                                         SampleSize(MinQuestions, BankOf(GradedPaperSize))) }
    /\ question_history = <<>>
    /\ sessions = <<>>
    /\ study_plans = <<>>
    /\ call = CallCreate(1, GradeRequest)
    /\ response = Reply("none", 0, "", NoBody)

\* The answer maps with n entries, over positions P and labels L: every
\* order of every choice of distinct positions.
RECURSIVE AnswerMapsOf(_, _, _)
AnswerMapsOf(n, P, L) ==
    IF n = 0 THEN { <<>> }
    ELSE UNION { { Append(m, Answer(q, a)) :
                     q \in P \ {m[i].q_num : i \in DOMAIN m}, a \in L } :
                 m \in AnswerMapsOf(n - 1, P, L) }

\* Maps over the positions 0..5 with the labels A and B, and a few with a
\* lower-case label or a position outside the list.
GradeAnswerMaps ==
    UNION { AnswerMapsOf(n, 0..GradedPaperSize, {"A", "B"}) : n \in 0..MaxAnswers }
    \cup { << Answer(1, "a") >>,
           << Answer(2, "b"), Answer(1, "A") >>,
           << Answer(1, "A"), Answer(GradedPaperSize + 1, "B") >>,
           << Answer(0 - GradedPaperSize, "A") >>,
           << Answer(1 - GradedPaperSize, "B"), Answer(3, "A") >> }

SubmitFresh ==
    /\ exam_attempts[1].completed_at = NONE
    /\ \E answers \in GradeAnswerMaps : SubmitExam(1, Submission(1, answers, 30))

SpecGrade == InitGrade /\ [][SubmitFresh]_vars

----------------------------------------------------------------------------
(* The score of every attempt size.                                        *)
(*                                                                         *)
(* The state after a paper of n marked questions (n up to the largest exam *)
(* a request may ask for) was uploaded and an exam holding all of them, in *)
(* bank order, was created; it is submitted with its first c answers right *)
(* and at most one more answer, a wrong one.                               *)

ScoreRequest == Request("WAEC", "Mathematics", "2023", MaxQuestions, DefaultTimeLimit)

\* The bank after the upload of MarkedPaper(n): its rows in paper order.
LargeBankOf(n) ==
    [i \in 1..n |->
        [exam_type |-> "WAEC", subject |-> "Mathematics", year |-> "2023",
         question_number |-> i,
         question_text |-> MarkedPaper(n)[i].question_text,
         options |-> MarkedPaper(n)[i].options,
         correct_answer |-> MarkedPaper(n)[i].correct_answer,
         topic |-> MarkedPaper(n)[i].topic]]

InitScore ==
    /\ StudentRegistered
    /\ \E n \in 1..MaxQuestions :
          /\ past_questions = LargeBankOf(n)
          /\ exam_attempts = << BankAttempt(1, ScoreRequest, LargeBankOf(n)) >>
    /\ question_history = <<>>
    /\ sessions = <<>>
    /\ study_plans = <<>>
    /\ call = CallCreate(1, ScoreRequest)
    /\ response = Reply("none", 0, "", NoBody)

\* The first c positions answered with the label of the answer key and the
\* next w positions with a label no key holds.
FirstRight(exam, c, w) ==
    [i \in 1..(c + w) |->
        Answer(i, IF i <= c THEN exam.questions[i].correct_answer ELSE "E")]

SubmitFirstRight ==
    /\ exam_attempts[1].completed_at = NONE
    /\ \E c \in 0..exam_attempts[1].total_questions :
          \E w \in 0..Min(1, exam_attempts[1].total_questions - c) :
             SubmitExam(1, Submission(1, FirstRight(exam_attempts[1], c, w), 30))

SpecScore == InitScore /\ [][SubmitFirstRight]_vars

----------------------------------------------------------------------------
(* Uploads to the question bank.                                           *)
(*                                                                         *)
(* Papers of two years are uploaded again and again, among them a paper    *)
(* whose extraction gives the same question number twice.                  *)

\* Question 1 twice (the second time with other text, options, answer and
\* topic), then question 2.
PaperRepeated ==
    [error |-> FALSE,
     questions |-> << Extracted(1, "2 + 2", "A", "Algebra"),
                      [Extracted(1, "2 + 4", "C", "Fractions") EXCEPT !.options = "p,q,r,s"],
                      Extracted(2, "Area of a circle", "D", NONE) >>]

UploadPapers == {PaperFirst, PaperRevised, PaperRepeated, PaperUnmarked, PaperBlank}

UploadYears == {"2022", "2023"}

InitUpload ==
    /\ StudentRegistered
    /\ past_questions = <<>>
    /\ exam_attempts = <<>>
    /\ question_history = <<>>
    /\ sessions = <<>>
    /\ study_plans = <<>>
    /\ call = Call("none", 0)
    /\ response = Reply("none", 0, "", NoBody)

UploadPaper ==
    \E year \in UploadYears, paper \in UploadPapers :
       UploadPastQuestions(1, TRUE, "WAEC", "Mathematics", year, paper)

SpecUpload == InitUpload /\ [][UploadPaper]_vars

----------------------------------------------------------------------------
(* Exam requests that leave fields out.                                    *)
(*                                                                         *)
(* The JSON body of POST /api/exams/create may leave number_of_questions   *)
(* and time_limit_minutes out (NoneOpt); the handler is given the request  *)
(* that the MockExamRequest schema makes of the body.                      *)

MockExamBody(exam_type, subject, year, number_of_questions, time_limit_minutes) ==
    [exam_type |-> exam_type, subject |-> subject, year |-> year,
     number_of_questions |-> number_of_questions,
     time_limit_minutes |-> time_limit_minutes]

\* MockExamRequest(**body): a field left out takes its Field default.
ParseMockExamRequest(body) ==
    Request(body.exam_type, body.subject, body.year,
            IF body.number_of_questions = NoneOpt THEN DefaultQuestions
            ELSE body.number_of_questions[1],
            IF body.time_limit_minutes = NoneOpt THEN DefaultTimeLimit
            ELSE body.time_limit_minutes[1])

CreateBodies ==
    { MockExamBody("WAEC", "Mathematics", "2023", NoneOpt, NoneOpt),
      MockExamBody("WAEC", "Mathematics", "2023", NoneOpt, Some(MinTimeLimit)),
      MockExamBody("WAEC", "Mathematics", "2023", Some(MinQuestions), NoneOpt),
      MockExamBody("WAEC", "Mathematics", NONE, Some(MinQuestions), Some(MaxTimeLimit)),
      MockExamBody("WAEC", "Mathematics", "2023", Some(MinQuestions - 1), NoneOpt),
      MockExamBody("JAMB", "Mathematics", NONE, NoneOpt, NoneOpt) }

CreateFromBody ==
    /\ Len(exam_attempts) < MaxAttempts
    /\ \E body \in CreateBodies : CreateMockExam(1, ParseMockExamRequest(body))

SpecDefaults == InitCreate /\ [][CreateFromBody]_vars

----------------------------------------------------------------------------
(* The subject counters of the students.                                   *)
(*                                                                         *)
(* Registration with any list of subjects, profile updates, ad-hoc         *)
(* question solving, and exams drawn from the built-in questions.          *)

Today == 7    \* the day of the server clock, in days

SubjectRegistrations ==
    { << "ada@school.ng", << "Mathematics", "English Language" >> >>,
      << "bayo@school.ng", << "Mathematics", "Mathematics" >> >> }

ProfileUpdate(phone, subjects) == [phone |-> phone, subjects |-> subjects]

ProfileUpdates ==
    { ProfileUpdate(NONE, Some(<<>>)), ProfileUpdate(NONE, Some(<< "Mathematics" >>)) }

SolveRequest(question_text, question_image) ==
    [question_text |-> question_text, question_image |-> question_image]

SolveRequests ==
    { SolveRequest("Solve x + 1 = 2", NONE), SolveRequest(NONE, "data:image/png;base64,AAAA"),
      SolveRequest(NONE, NONE) }

Solutions ==
    { Solution(FALSE, "Mathematics"), Solution(FALSE, "Physics"), Solution(TRUE, NONE) }

SubjectExamRequests ==
    { Request("WAEC", "Mathematics", NONE, MinQuestions, DefaultTimeLimit),
      Request("WAEC", "English Language", NONE, MinQuestions, DefaultTimeLimit) }

RegisterSubjects ==
    \E registration \in SubjectRegistrations :
       RegisterUser(registration[1], registration[2])

UpdateProfile ==
    \E u \in DOMAIN users, update_data \in ProfileUpdates :
       UpdateMyProfile(u, update_data)

Solve ==
    /\ Len(question_history) < MaxSolved
    /\ \E u \in DOMAIN users, request \in SolveRequests, solution_data \in Solutions :
          SolveQuestion(u, request, solution_data, Today)

SolveImage ==
    /\ Len(question_history) < MaxSolved
    /\ \E u \in DOMAIN users, is_image \in BOOLEAN, solution_data \in Solutions :
          SolveQuestionWithImage(u, is_image, solution_data, Today)

CreateSubjectExam ==
    /\ Len(exam_attempts) < MaxAttempts
    /\ \E u \in DOMAIN users, request \in SubjectExamRequests :
          CreateMockExam(u, request)

\* An empty answer map, and one with the first two positions.
SubjectSubmissions(exam_id) ==
    { Submission(exam_id, <<>>, 30),
      Submission(exam_id, << Answer(1, "A"), Answer(2, "B") >>, 30) }

SubmitSubjectExam ==
    \E u \in DOMAIN users, exam_id \in DOMAIN exam_attempts :
       \E submission \in SubjectSubmissions(exam_id) : SubmitExam(u, submission)

NextSubjects ==
    \/ RegisterSubjects
    \/ UpdateProfile
    \/ Solve
    \/ SolveImage
    \/ CreateSubjectExam
    \/ SubmitSubjectExam

SpecSubjects == Init /\ [][NextSubjects]_vars

----------------------------------------------------------------------------
(* The dashboard of a student.                                             *)
(*                                                                         *)
(* Two students are registered; the first has three subjects with any      *)
(* counters of CounterPairs and solved questions on any set of the last    *)
(* days, each day twice; the second has one subject and solved a question  *)
(* today. The dashboard is then read.                                      *)

MaxDaysBack == 3     \* days before today on which questions were solved

\* <<correct_answers, total_questions_attempted>>
CounterPairs ==
    { <<0, 0>>, <<0, 4>>, <<4, 5>>, <<2, 5>>, <<1, 107>>, <<1, 108>> }

DashboardSubjects == << "Mathematics", "English Language", "Physics" >>

HistoryOf(days) ==
    LET rows == [i \in 1..Cardinality(days) |->
                    [user_id |-> 1, subject |-> "Mathematics",
                     solved_at |-> Ascending(days)[i]]]
    IN  rows \o rows
          \o << [user_id |-> 2, subject |-> "Mathematics", solved_at |-> Today] >>

InitDashboard ==
    /\ users = << [email |-> "ada@school.ng", phone |-> NONE],
                  [email |-> "bayo@school.ng", phone |-> NONE] >>
    /\ \E counters \in [1..Len(DashboardSubjects) -> CounterPairs] :
          user_subjects =
            << [user_id |-> 2, subject_name |-> "Mathematics",
                total_questions_attempted |-> 9, correct_answers |-> 0] >>
            \o [i \in 1..Len(DashboardSubjects) |->
                  [user_id |-> 1, subject_name |-> DashboardSubjects[i],
                   total_questions_attempted |-> counters[i][2],
                   correct_answers |-> counters[i][1]]]
    /\ \E days \in SUBSET ((Today - MaxDaysBack)..Today) :
          question_history = HistoryOf(days)
    /\ past_questions = <<>>
    /\ exam_attempts = <<>>
    /\ sessions = <<>>
    /\ study_plans = <<>>
    /\ call = Call("none", 0)
    /\ response = Reply("none", 0, "", NoBody)

ReadDashboard == GetStudentDashboard(1, Today)

SpecDashboard == InitDashboard /\ [][ReadDashboard]_vars

----------------------------------------------------------------------------
(* Concurrent submissions of one attempt.                                  *)
(*                                                                         *)
(* From the state of InitGrade (one fresh attempt of five questions), the  *)
(* student sends ConcurrentSubmits submissions of the attempt; their steps *)
(* interleave in every order.                                              *)

ConcurrentSubmits == 2    \* requests in flight for the attempt

RaceSubmissions ==
    { Submission(1, <<>>, 30),
      Submission(1, << Answer(1, "A"), Answer(2, "B") >>, 30),
      Submission(1, << Answer(1, "A"), Answer(2, "B"), Answer(3, "A") >>, 45),
      Submission(1, << Answer(9, "A") >>, 30),
      Submission(2, <<>>, 30) }

Arrive ==
    /\ Len(sessions) < ConcurrentSubmits
    /\ \E submission \in RaceSubmissions : SubmitArrives(1, submission)

Query == \E r \in DOMAIN sessions : SubmitQueries(r)

GradeStep == \E r \in DOMAIN sessions : SubmitGrades(r)

Commit == \E r \in DOMAIN sessions : SubmitCommits(r)

NextRace == Arrive \/ Query \/ GradeStep \/ Commit

SpecRace == InitGrade /\ [][NextRace]_vars

----------------------------------------------------------------------------
(* Concurrent requests that count on one subject row.                      *)
(*                                                                         *)
(* From the state of InitGrade, the student submits the attempt once and   *)
(* solves up to ConcurrentSolves questions; the steps interleave.          *)

ConcurrentSolves == 2    \* solve requests in flight

CounterSubmissions ==
    { Submission(1, <<>>, 30),
      Submission(1, << Answer(1, "A"), Answer(2, "B") >>, 30),
      Submission(1, << Answer(9, "A") >>, 30) }

SubmitSessions == {r \in DOMAIN sessions : sessions[r].submission.exam_id # 0}

ArriveSubmit ==
    /\ SubmitSessions = {}
    /\ \E submission \in CounterSubmissions : SubmitArrives(1, submission)

ArriveSolve ==
    /\ Cardinality(DOMAIN sessions \ SubmitSessions) < ConcurrentSolves
    /\ \E solution_data \in Solutions : SolveArrives(1, solution_data, Today)

SolveRead == \E r \in DOMAIN sessions : SolveReads(r)

SolveCommit == \E r \in DOMAIN sessions : SolveCommits(r)

NextCounters ==
    ArriveSubmit \/ ArriveSolve \/ Query \/ GradeStep \/ Commit
      \/ SolveRead \/ SolveCommit

SpecCounters == InitGrade /\ [][NextCounters]_vars

----------------------------------------------------------------------------
(* Several attempts at the same questions.                                 *)
(*                                                                         *)
(* The state after a paper of ten marked questions was uploaded and        *)
(* RepeatedAttempts exams holding all of them, in bank order, were         *)
(* created; each is then submitted with one of a few answer maps.          *)

RepeatedAttempts == 3    \* attempts created from the same questions

RepeatRequest == Request("WAEC", "Mathematics", "2023", MinQuestions, DefaultTimeLimit)

InitRepeat ==
    /\ StudentRegistered
    /\ past_questions = LargeBankOf(MinQuestions)
    /\ exam_attempts = [i \in 1..RepeatedAttempts |->
                           BankAttempt(1, RepeatRequest, LargeBankOf(MinQuestions))]
    /\ question_history = <<>>
    /\ sessions = <<>>
    /\ study_plans = <<>>
    /\ call = CallCreate(1, RepeatRequest)
    /\ response = Reply("none", 0, "", NoBody)

\* Five right answers, one wrong answer, seven right answers, and two wrong
\* answers in either order.
RepeatAnswerMaps(exam) ==
    { FirstRight(exam, 5, 0), FirstRight(exam, 0, 1), FirstRight(exam, 7, 0),
      << Answer(1, "E"), Answer(3, "E") >>, << Answer(3, "E"), Answer(1, "E") >> }

\* Every map sent after 30 seconds, and one of them after 45 as well.
RepeatSubmissions(exam_id) ==
    { Submission(exam_id, answers, 30) :
        answers \in RepeatAnswerMaps(exam_attempts[exam_id]) }
      \cup { Submission(exam_id, FirstRight(exam_attempts[exam_id], 7, 0), 45) }

SubmitRepeated ==
    \E exam_id \in DOMAIN exam_attempts :
       \E submission \in RepeatSubmissions(exam_id) : SubmitExam(1, submission)

SpecRepeat == InitRepeat /\ [][SubmitRepeated]_vars

----------------------------------------------------------------------------
(* Video lookups.                                                          *)

ApiReplies ==
    { ApiReply(NONE, << "dQw4w9WgXcQ" >>), ApiReply(NONE, << "9bZkp7q19f0", "dQw4w9WgXcQ" >>),
      ApiReply(NONE, <<>>), ApiReply(NONE, << "" >>), ApiReply("http", <<>>) }

SearchVideo ==
    \E subject \in {"Mathematics", "Physics", "Chemistry", "Biology"},
       topic \in {"Quadratic Equations", "Motion", "Acids", "Cells", "Waves"},
       primary \in ApiReplies, fallback \in ApiReplies :
       SearchEducationalVideo(subject, topic, primary, fallback)

SpecVideo == Init /\ [][SearchVideo]_vars

----------------------------------------------------------------------------
(* Linking a child to a parent (dashboard.py).  The rows of users carry    *)
(* role and parent_id here; parent_id 0 stands for None.                   *)

LinkReply(status, detail, message, child_id) ==
    Reply("link-child", status, detail, [message |-> message, child_id |-> child_id])

CallLink(current_user, child_email) ==
    [Call("link-child", current_user) EXCEPT !.request = [child_email |-> child_email]]

\* A linking that takes a child over from another parent.
LinkChildToParentTakingOver(current_user, child_email) ==
    LET child == First({i \in DOMAIN users : users[i].email = child_email})
    IN  /\ call' = CallLink(current_user, child_email)
        /\ IF child = 0
             THEN /\ response' = LinkReply(404, "Child account not found. Please ensure your child has registered.", "", 0)
                  /\ UNCHANGED users
           ELSE IF users[child].role # "student"
             THEN /\ response' = LinkReply(400, "The account must be a student account", "", 0)
                  /\ UNCHANGED users
           ELSE IF users[child].parent_id = current_user
             THEN /\ response' = LinkReply(200, "", "Child is already linked to your account", child)
                  /\ UNCHANGED users
           ELSE /\ users' = [users EXCEPT ![child].parent_id = current_user]
                /\ response' = LinkReply(200, "", "Child linked successfully", child)
        /\ UNCHANGED << user_subjects, past_questions, exam_attempts,
                        question_history, sessions, study_plans >>

\* link_child_to_parent for the authenticated current_user.
LinkChildToParent(current_user, child_email) ==
    LET child == First({i \in DOMAIN users : users[i].email = child_email})
    IN  /\ call' = CallLink(current_user, child_email)
        /\ IF child = 0
             THEN /\ response' = LinkReply(404, "Child account not found. Please ensure your child has registered.", "", 0)
                  /\ UNCHANGED users
           ELSE IF users[child].role # "student"
             THEN /\ response' = LinkReply(400, "The account must be a student account", "", 0)
                  /\ UNCHANGED users
           ELSE IF users[child].parent_id # 0
             THEN IF users[child].parent_id = current_user
                    THEN /\ response' = LinkReply(200, "", "Child is already linked to your account", child)
                         /\ UNCHANGED users
                    ELSE /\ response' = LinkReply(400, "This child account is already linked to another parent", "", 0)
                         /\ UNCHANGED users
           ELSE /\ users' = [users EXCEPT ![child].parent_id = current_user]
                /\ response' = LinkReply(200, "", "Child linked successfully", child)
        /\ UNCHANGED << user_subjects, past_questions, exam_attempts,
                        question_history, sessions, study_plans >>

UserRow(email, role) == [email |-> email, phone |-> NONE, role |-> role, parent_id |-> 0]

\* Three students, two parents and an administrator, nobody linked.
InitLink ==
    /\ users = << UserRow("ada@school.ng", "student"), UserRow("bayo@school.ng", "student"),
                  UserRow("chidi@home.ng", "parent"), UserRow("dupe@home.ng", "parent"),
                  UserRow("eze@school.ng", "admin"), UserRow("kemi@school.ng", "student") >>
    /\ user_subjects = <<>>
    /\ past_questions = <<>>
    /\ exam_attempts = <<>>
    /\ question_history = <<>>
    /\ sessions = <<>>
    /\ study_plans = <<>>
    /\ call = Call("none", 0)
    /\ response = Reply("none", 0, "", NoBody)

\* Depends(get_current_parent) admits the accounts with role parent; the
\* child_email is any registered address or an unknown one.
LinkChild ==
    \E current_user \in {i \in DOMAIN users : users[i].role = "parent"},
       child_email \in {users[i].email : i \in DOMAIN users} \cup {"nobody@school.ng"} :
       LinkChildToParent(current_user, child_email)

SpecLink == InitLink /\ [][LinkChild]_vars

----------------------------------------------------------------------------
(* Study plans (study_plans.py).  A dict of the AI's JSON is a record with  *)
(* the set of its keys in the field keys; dates are days.                  *)

DefaultWeeks == 12

\* "Calculate weeks until exam": exam_date is None (<<>>) or <<day>>.
WeeksUntilExam(exam_date, now) ==
    IF exam_date # NoneOpt
      THEN LET delta_days == exam_date[1] - now
               weeks == delta_days \div 7
           IN  IF weeks >= 1 THEN weeks ELSE 1
      ELSE DefaultWeeks

\* plan_data.get("weekly_breakdown", [])
WeeklyBreakdown(plan_data) ==
    IF "weekly_breakdown" \in plan_data.keys THEN plan_data.weekly_breakdown ELSE <<>>

\* daily.get("activities", ["study"])
ActivitiesOf(daily) ==
    IF "activities" \in daily.keys THEN daily.activities ELSE << "study" >>

\* "Format response": one entry per daily schedule of every week, in order.
RECURSIVE FormatDays(_)
FormatDays(daily_schedule) ==
    IF daily_schedule = <<>> THEN <<>>
    ELSE LET daily == Head(daily_schedule)
         IN  << [day |-> daily.day, subject |-> daily.subject,
                 activity_type |-> IF PyIndexOk(ActivitiesOf(daily), 0)
                                     THEN PyIndex(ActivitiesOf(daily), 0)
                                     ELSE IndexError] >>
             \o FormatDays(Tail(daily_schedule))

RECURSIVE FormatWeeks(_)
FormatWeeks(weekly_breakdown) ==
    IF weekly_breakdown = <<>> THEN <<>>
    ELSE FormatDays(Head(weekly_breakdown).daily_schedule)
           \o FormatWeeks(Tail(weekly_breakdown))

PlanReply(status, detail, id, weekly_schedule) ==
    Reply("generate-plan", status, detail,
          [id |-> id, is_active |-> id # 0, weekly_schedule |-> weekly_schedule])

CallPlan(u, request, weeks_until_exam) ==
    [Call("generate-plan", u) EXCEPT
        !.request = [target_exam |-> request.target_exam, exam_date |-> request.exam_date,
                     weeks_until_exam |-> weeks_until_exam]]

\* The rows of study_plans with the caller's active plans deactivated.
Deactivated(u) ==
    [i \in DOMAIN study_plans |->
        IF study_plans[i].user_id = u /\ study_plans[i].is_active
          THEN [study_plans[i] EXCEPT !.is_active = FALSE]
          ELSE study_plans[i]]

StudyPlanRow(u, request, plan_data) ==
    [user_id |-> u,
     plan_name |-> request.target_exam \o " Preparation Plan",
     target_exam |-> request.target_exam,
     exam_date |-> request.exam_date,
     weekly_schedule |-> WeeklyBreakdown(plan_data),
     is_active |-> TRUE,
     completion_percentage |-> 0]

\* A generation that leaves the earlier plans as they are.
GenerateStudyPlanKeepingActive(u, request, outcome, now) ==
    /\ call' = CallPlan(u, request, WeeksUntilExam(request.exam_date, now))
    /\ IF outcome.error # NONE
         THEN /\ response' = PlanReply(500, "AI service error: " \o outcome.error, 0, <<>>)
              /\ UNCHANGED study_plans
         ELSE \E weekly_schedule \in {FormatWeeks(WeeklyBreakdown(outcome.plan_data))} :
                /\ study_plans' =
                      Append(study_plans, StudyPlanRow(u, request, outcome.plan_data))
                /\ response' =
                      IF \E i \in DOMAIN weekly_schedule :
                            weekly_schedule[i].activity_type = IndexError
                        THEN PlanReply(500, "Internal Server Error", 0, <<>>)
                        ELSE PlanReply(200, "", Len(study_plans) + 1, weekly_schedule)
    /\ UNCHANGED <<users, user_subjects, past_questions, exam_attempts,
                   question_history, sessions>>

\* generate_study_plan for the authenticated user u; outcome is what the AI
\* service does: it raises (error) or returns the parsed JSON (plan_data).
GenerateStudyPlan(u, request, outcome, now) ==
    /\ call' = CallPlan(u, request, WeeksUntilExam(request.exam_date, now))
    /\ IF outcome.error # NONE
         THEN /\ response' = PlanReply(500, "AI service error: " \o outcome.error, 0, <<>>)
              /\ UNCHANGED study_plans
         ELSE \E weekly_schedule \in {FormatWeeks(WeeklyBreakdown(outcome.plan_data))} :
                /\ study_plans' =
                      Append(Deactivated(u), StudyPlanRow(u, request, outcome.plan_data))
                /\ response' =
                      IF \E i \in DOMAIN weekly_schedule :
                            weekly_schedule[i].activity_type = IndexError
                        THEN PlanReply(500, "Internal Server Error", 0, <<>>)
                        ELSE PlanReply(200, "", Len(study_plans) + 1, weekly_schedule)
    /\ UNCHANGED <<users, user_subjects, past_questions, exam_attempts,
                   question_history, sessions>>

MaxPlans == 3

Daily(day, subject, keys, activities) ==
    [keys |-> {"day", "subject"} \cup keys, day |-> day, subject |-> subject,
     activities |-> activities]

Week(daily_schedule) == [daily_schedule |-> daily_schedule]

\* What the AI service does: it fails, or it returns a plan of two days, a
\* plan without weekly_breakdown, or a plan with an empty list of activities.
PlanOutcomes ==
    { [error |-> "timeout", plan_data |-> [keys |-> {}]],
      [error |-> NONE,
       plan_data |-> [keys |-> {"weekly_breakdown"},
                      weekly_breakdown |->
                         << Week(<< Daily("Monday", "Mathematics", {"activities"}, << "practice" >>),
                                    Daily("Tuesday", "English Language", {}, <<>>) >>) >>]],
      [error |-> NONE, plan_data |-> [keys |-> {"plan_overview"}]],
      [error |-> NONE,
       plan_data |-> [keys |-> {"weekly_breakdown"},
                      weekly_breakdown |->
                         << Week(<< Daily("Monday", "Physics", {"activities"}, <<>>) >>) >>]] }

PlanRequests ==
    { [target_exam |-> "WAEC", exam_date |-> NoneOpt],
      [target_exam |-> "JAMB", exam_date |-> Some(Today + 30)],
      [target_exam |-> "NECO", exam_date |-> Some(Today - 3)] }

InitPlans ==
    /\ users = << [email |-> "ada@school.ng", phone |-> NONE],
                  [email |-> "bayo@school.ng", phone |-> NONE] >>
    /\ user_subjects = <<>>
    /\ past_questions = <<>>
    /\ exam_attempts = <<>>
    /\ question_history = <<>>
    /\ sessions = <<>>
    /\ study_plans = <<>>
    /\ call = Call("none", 0)
    /\ response = Reply("none", 0, "", NoBody)

GeneratePlan ==
    /\ Len(study_plans) < MaxPlans
    /\ \E u \in DOMAIN users, request \in PlanRequests, outcome \in PlanOutcomes :
          GenerateStudyPlan(u, request, outcome, Today)

SpecPlans == InitPlans /\ [][GeneratePlan]_vars

----------------------------------------------------------------------------
(* Properties of grading.                                                  *)

\* C1: once an attempt has been graded (completed_at set), every further
\* submit_exam for its id, whatever the answers and the time taken, is
\* refused (by its owner: "Exam already submitted") and changes neither the
\* attempts nor the user_subjects counters.
C1_GradedAtMostOnce ==
    [][\A u \in DOMAIN users, id \in DOMAIN exam_attempts :
         \A submission \in Submissions(id) :
            (exam_attempts[id].completed_at # NONE /\ SubmitExam(u, submission))
            => /\ response'.status # 200
               /\ exam_attempts[id].user_id = u
                    => response'.status = 400
                       /\ response'.detail = "Exam already submitted"
               /\ exam_attempts' = exam_attempts
               /\ user_subjects' = user_subjects]_vars

\* C1 witness: the owner's second submission of a graded attempt was refused.
C1_Witness ==
    /\ call.op = "submit"
    /\ call.exam_id \in DOMAIN exam_attempts
    /\ exam_attempts[call.exam_id].user_id = call.user
    /\ exam_attempts[call.exam_id].completed_at # NONE
    /\ response.status = 400

\* The questions create_mock_exam can draw from for a request: the marked
\* bank rows of its exam type and subject (of its year, when a year other
\* than "Random Mix" is asked for), else the built-in questions of the subject.
Available(request) ==
    LET matching == {i \in DOMAIN past_questions :
                       /\ past_questions[i].exam_type = request.exam_type
                       /\ past_questions[i].subject = request.subject
                       /\ past_questions[i].correct_answer # NONE
                       /\ (request.year \in {NONE, "", "Random Mix"}
                             \/ past_questions[i].year = request.year)}
    IN  IF matching # {} THEN Cardinality(matching)
        ELSE IF request.subject \in DOMAIN SAMPLE_QUESTIONS
          THEN Len(SAMPLE_QUESTIONS[request.subject])
        ELSE 0

\* C2: a create_mock_exam with a valid request for which questions are
\* available, in the bank or among the built-in ones, succeeds, and a
\* successful one returns min(requested, available) questions, none with a
\* correct_answer; asking for more than there are is not an error.
C2_ReturnsMinOfRequestedAndAvailable ==
    call.op = "create" =>
       /\ (ValidMockExamRequest(call.request) /\ Available(call.request) > 0)
             => response.status = 200
       /\ response.status = 200 =>
             /\ Len(response.body.questions)
                  = Min(call.request.number_of_questions, Available(call.request))
             /\ response.body.total_questions = Len(response.body.questions)
             /\ \A i \in DOMAIN response.body.questions :
                   response.body.questions[i].correct_answer = NONE

\* C2 witness: the largest exam was asked for from a bank of twelve marked
\* questions, and twelve came back.
C2_Witness ==
    /\ call.op = "create"
    /\ call.request.number_of_questions = MaxQuestions
    /\ Available(call.request) = MinQuestions + 2
    /\ response.status = 200
    /\ Len(response.body.questions) = MinQuestions + 2

\* C3: every stored attempt, graded or not, has total_questions equal to
\* the length of its question snapshot and to the size of its answer key,
\* and the key's positions are exactly "1".."total_questions".
C3_TotalMatchesSnapshotAndKey ==
    \A id \in DOMAIN exam_attempts :
       LET exam == exam_attempts[id] IN
       /\ exam.total_questions = Len(exam.questions)
       /\ exam.total_questions = Cardinality(DOMAIN exam.correct_answers)
       /\ DOMAIN exam.correct_answers = {PyStr(i) : i \in 1..exam.total_questions}

\* C3 witness: a graded attempt drawn from the bank, two questions long.
C3_Witness ==
    \E id \in DOMAIN exam_attempts :
       /\ exam_attempts[id].completed_at # NONE
       /\ exam_attempts[id].total_questions = 2
       /\ past_questions # <<>>

\* The entries of an answer map that carry the label the attempt's own
\* answer key holds for their position.
KeyMatches(exam, answers) ==
    {i \in DOMAIN answers :
        /\ PyStr(answers[i].q_num) \in DOMAIN exam.correct_answers
        /\ answers[i].answer = exam.correct_answers[PyStr(answers[i].q_num)]}

\* The snapshot rows of an attempt that are a copy of some row of the bank.
InBank(exam) ==
    {i \in DOMAIN exam.questions :
        \E j \in DOMAIN past_questions :
           /\ past_questions[j].question_text = exam.questions[i].question
           /\ past_questions[j].correct_answer = exam.questions[i].correct_answer}

\* C4: a step that changes the question bank changes no attempt; no step
\* changes the questions, topics or answer key of a stored attempt; and a
\* grading counts the answers against the attempt's own key as it was
\* stored, whatever the bank holds by then.
C4_SnapshotIsPrivate ==
    [][\A id \in DOMAIN exam_attempts :
          /\ past_questions' # past_questions => exam_attempts' = exam_attempts
          /\ id \in DOMAIN exam_attempts'
          /\ exam_attempts'[id].questions = exam_attempts[id].questions
          /\ exam_attempts'[id].correct_answers = exam_attempts[id].correct_answers
          /\ (exam_attempts[id].completed_at = NONE
                /\ exam_attempts'[id].completed_at # NONE)
               => /\ call'.op = "submit" /\ call'.exam_id = id
                  /\ exam_attempts'[id].correct_count
                       = Cardinality(KeyMatches(exam_attempts[id], call'.answers))
                  /\ response'.body.correct_count
                       = exam_attempts'[id].correct_count]_vars

\* C4 witness: an attempt drawn from the bank was graded after an upload
\* overwrote a bank row it was drawn from, and an answer was counted right
\* against the snapshot.
C4_Witness ==
    /\ call.op = "submit"
    /\ response.status = 200
    /\ LET exam == exam_attempts[call.exam_id] IN
       /\ exam.exam_type = "WAEC" /\ exam.subject = "Mathematics"
       /\ exam.total_questions = 2
       /\ InBank(exam) # DOMAIN exam.questions
       /\ exam.correct_count = 2

\* C5: a successful submit_exam reports and stores as correct_count the
\* number of submitted positions whose label is, letter for letter and in
\* the same case, the label the attempt's answer key holds for them; an
\* answer map over a part of the attempt's positions is accepted, and the
\* positions it leaves out add nothing.
C5_CorrectCountIsExactMatches ==
    (call.op = "submit" /\ call.exam_id \in DOMAIN exam_attempts
        /\ exam_attempts[call.exam_id].user_id = call.user)
    => LET exam == exam_attempts[call.exam_id] IN
       /\ (\A i \in DOMAIN call.answers :
              call.answers[i].q_num \in 1..exam.total_questions)
            => response.status = 200
       /\ response.status = 200
            => /\ response.body.correct_count
                    = Cardinality(KeyMatches(exam, call.answers))
               /\ exam.correct_count = response.body.correct_count
               /\ exam.correct_count <= Len(call.answers)

\* C5 witness: a map of two of the five positions was graded; the label
\* "b" for a key label "B" was not counted, the label "A" for "A" was.
C5_Witness ==
    /\ call.op = "submit"
    /\ response.status = 200
    /\ call.answers = << Answer(2, "b"), Answer(1, "A") >>
    /\ exam_attempts[1].correct_answers[PyStr(2)] = "B"
    /\ exam_attempts[1].correct_answers[PyStr(1)] = "A"
    /\ response.body.correct_count = 1

\* C6: in a grading, a position the answer map leaves out counts as a miss
\* against its question's topic, as a wrongly answered one does. With the
\* misses of a topic counted so (the positions of the attempt that the map
\* leaves out or answers with another label than the key's), a topic with a
\* miss is among the weak topics unless three topics with at least as many
\* misses are, and every weak topic has a miss.
C6_UnansweredCountedAsMissed ==
    (call.op = "submit" /\ response.status = 200
        /\ \A i \in DOMAIN call.answers :
              call.answers[i].q_num \in 1..exam_attempts[call.exam_id].total_questions)
    => LET exam == exam_attempts[call.exam_id]
           weak == response.body.weak_topics
           topics == {exam.questions[p].topic : p \in DOMAIN exam.questions}
           missed == {p \in 1..exam.total_questions :
                        \A i \in DOMAIN call.answers :
                           call.answers[i].q_num = p
                           => call.answers[i].answer # exam.correct_answers[PyStr(p)]}
           misses(topic) == Cardinality({p \in missed : exam.questions[p].topic = topic})
       IN  \A topic \in topics :
              IF misses(topic) = 0
              THEN \A i \in DOMAIN weak : weak[i] # topic
              ELSE \/ \E i \in DOMAIN weak : weak[i] = topic
                   \/ /\ Len(weak) = WeakTopicsCut
                      /\ \A i \in DOMAIN weak : misses(weak[i]) >= misses(topic)

\* The entries of an answer map that submit_exam counts as misses, and the
\* topic of the question each is counted against.
WrongEntries(exam, answers) == DOMAIN answers \ KeyMatches(exam, answers)

TopicOfEntry(exam, answers, i) == PyIndex(exam.questions, answers[i].q_num - 1).topic

MissesOf(exam, answers, topic) ==
    Cardinality({i \in WrongEntries(exam, answers) : TopicOfEntry(exam, answers, i) = topic})

\* The first entry of the answer map that is a miss against the topic.
FirstSeen(exam, answers, topic) ==
    CHOOSE i \in WrongEntries(exam, answers) :
       /\ TopicOfEntry(exam, answers, i) = topic
       /\ \A j \in WrongEntries(exam, answers) :
             TopicOfEntry(exam, answers, j) = topic => i <= j

\* topic a ranks before topic b: more misses, or as many and seen first.
RanksBefore(exam, answers, a, b) ==
    \/ MissesOf(exam, answers, a) > MissesOf(exam, answers, b)
    \/ /\ MissesOf(exam, answers, a) = MissesOf(exam, answers, b)
       /\ FirstSeen(exam, answers, a) < FirstSeen(exam, answers, b)

\* C8: the weak_topics of a grading, returned and stored, are the first
\* three (all, when there are fewer) of the topics with a miss, by miss
\* count descending and, among equal counts, in the order in which the
\* answers first met them; no topic without a miss and no topic twice.
C8_WeakTopicsTopThreeStable ==
    (call.op = "submit" /\ response.status = 200)
    => LET exam == exam_attempts[call.exam_id]
           weak == response.body.weak_topics
           missed == {TopicOfEntry(exam, call.answers, i) :
                        i \in WrongEntries(exam, call.answers)}
       IN  /\ exam.weak_topics = Some(weak)
           /\ Len(weak) = Min(WeakTopicsCut, Cardinality(missed))
           /\ \A i \in DOMAIN weak : weak[i] \in missed
           /\ \A i, j \in DOMAIN weak :
                 i < j => RanksBefore(exam, call.answers, weak[i], weak[j])
           /\ \A topic \in missed :
                 (\A i \in DOMAIN weak : weak[i] # topic)
                 => \A i \in DOMAIN weak :
                       RanksBefore(exam, call.answers, weak[i], topic)

\* C8 witness: four topics were missed once each, Geometry first, and the
\* three met first were kept.
C8_Witness ==
    /\ call.op = "submit"
    /\ response.status = 200
    /\ Cardinality({TopicOfEntry(exam_attempts[1], call.answers, i) :
                      i \in WrongEntries(exam_attempts[1], call.answers)}) = 4
    /\ Len(response.body.weak_topics) = WeakTopicsCut
    /\ response.body.weak_topics[1] = "Geometry"

\* C7: every graded attempt has
\* score_percentage = floor(100 * correct_count / total_questions), for
\* every total_questions in 1..100 and correct_count in 0..total_questions.
C7_ScoreIsFloorOfPercentage ==
    \A id \in DOMAIN exam_attempts :
       LET exam == exam_attempts[id] IN
       (exam.completed_at # NONE /\ exam.total_questions \in 1..MaxQuestions)
       => exam.score_percentage = (100 * exam.correct_count) \div exam.total_questions

\* C9: the recommendations of a grading are, in this order, "fundamentals"
\* exactly when the score is below 50, "weak-topics" exactly when the list
\* of weak topics is not empty, "congratulations" exactly when the score is
\* 70 or more, and nothing else.
C9_RecommendationsSubList ==
    (call.op = "submit" /\ response.status = 200)
    => LET score == response.body.score_percentage
           chosen == {k \in {"fundamentals", "weak-topics", "congratulations"} :
                        \/ k = "fundamentals" /\ score < 50
                        \/ k = "weak-topics" /\ response.body.weak_topics # <<>>
                        \/ k = "congratulations" /\ score >= 70}
           order == << "fundamentals", "weak-topics", "congratulations" >>
           at(k) == CHOOSE i \in DOMAIN order : order[i] = k
           given == response.body.recommendations
       IN  /\ {given[i] : i \in DOMAIN given} = chosen
           /\ Len(given) = Cardinality(chosen)
           /\ \A i, j \in DOMAIN given : i < j => at(given[i]) < at(given[j])

\* C9 witness: a grading with a score of exactly 50 and a weak topic was
\* given the weak-topics recommendation alone.
C9_Witness ==
    /\ call.op = "submit"
    /\ response.status = 200
    /\ response.body.score_percentage = 50
    /\ response.body.weak_topics # <<>>
    /\ response.body.recommendations = << "weak-topics" >>

\* C10: submit_exam for an exam id that does not exist, or that belongs to
\* another user, answers 404 "Exam not found" and changes neither the
\* attempts (completed_at included) nor any user_subjects row.
C10_ForeignAttemptNotFound ==
    [][\A u \in DOMAIN users, id \in 1..(Len(exam_attempts) + 1) :
         \A submission \in Submissions(id) :
            ((id \notin DOMAIN exam_attempts \/ exam_attempts[id].user_id # u)
                /\ SubmitExam(u, submission))
            => /\ response'.status = 404
               /\ response'.detail = "Exam not found"
               /\ exam_attempts' = exam_attempts
               /\ user_subjects' = user_subjects]_vars

\* C10 witness: a user's submission for another user's ungraded attempt was
\* answered 404 and the attempt is still ungraded.
C10_Witness ==
    /\ call.op = "submit"
    /\ call.exam_id \in DOMAIN exam_attempts
    /\ exam_attempts[call.exam_id].user_id # call.user
    /\ exam_attempts[call.exam_id].completed_at = NONE
    /\ response.status = 404

----------------------------------------------------------------------------
(* Properties of the subject counters.                                     *)

\* The rows of user_subjects of a user and a subject.
RowsOf(table, u, subject) ==
    {i \in DOMAIN table : table[i].user_id = u /\ table[i].subject_name = subject}

\* C11: a successful submit_exam adds the attempt's total_questions and
\* correct_count to the counters of the row of the caller and the attempt's
\* subject (when there are several, the one with the lowest id) and changes
\* no other row; when the caller has no row of that subject the grading
\* succeeds all the same and user_subjects is unchanged.
C11_GradingCountsOnOwnSubjectRow ==
    [][(call'.op = "submit" /\ response'.status = 200)
        => LET id == call'.exam_id
               rows == RowsOf(user_subjects, call'.user, exam_attempts[id].subject)
           IN  /\ Len(user_subjects') = Len(user_subjects)
               /\ \A i \in DOMAIN user_subjects :
                     IF rows # {} /\ i = First(rows)
                     THEN /\ user_subjects'[i].total_questions_attempted
                               = user_subjects[i].total_questions_attempted
                                   + exam_attempts[id].total_questions
                          /\ user_subjects'[i].correct_answers
                               = user_subjects[i].correct_answers
                                   + exam_attempts'[id].correct_count
                          /\ user_subjects'[i].user_id = user_subjects[i].user_id
                          /\ user_subjects'[i].subject_name = user_subjects[i].subject_name
                     ELSE user_subjects'[i] = user_subjects[i]]_vars

\* C11 witness: a student with a Mathematics row and an English Language
\* row, and another student with rows of their own, was graded on an
\* English Language exam; the English Language row alone holds the counts.
C11_Witness ==
    /\ call.op = "submit"
    /\ response.status = 200
    /\ exam_attempts[call.exam_id].subject = "English Language"
    /\ Len(user_subjects) = 4
    /\ \E i, j \in DOMAIN user_subjects :
          /\ user_subjects[i].user_id = call.user
          /\ user_subjects[i].subject_name = "English Language"
          /\ user_subjects[i].total_questions_attempted = 1
          /\ user_subjects[j].user_id = call.user
          /\ user_subjects[j].subject_name = "Mathematics"
          /\ user_subjects[j].total_questions_attempted = 0

\* C12: for every user and subject that has a row before and after a step,
\* the counters total_questions_attempted and correct_answers of that user
\* and subject are not lower after the step than before it.
C12_CountersNeverDecrease ==
    [][\A u \in DOMAIN users :
          \A subject \in {user_subjects[i].subject_name : i \in DOMAIN user_subjects} :
             LET before == RowsOf(user_subjects, u, subject)
                 after == RowsOf(user_subjects', u, subject)
             IN  (before # {} /\ after # {})
                 => /\ user_subjects'[First(after)].total_questions_attempted
                         >= user_subjects[First(before)].total_questions_attempted
                    /\ user_subjects'[First(after)].correct_answers
                         >= user_subjects[First(before)].correct_answers]_vars

\* C13: there is at most one user_subjects row per user and subject.
C13_OneRowPerUserAndSubject ==
    \A i, j \in DOMAIN user_subjects :
       (/\ user_subjects[i].user_id = user_subjects[j].user_id
        /\ user_subjects[i].subject_name = user_subjects[j].subject_name)
       => i = j

----------------------------------------------------------------------------
(* Properties of exam creation.                                            *)

\* C14: a create_mock_exam with a valid request for which the bank holds no
\* marked question of the exam type, subject and year, and whose subject
\* has no built-in questions, answers 400 "No questions available" and
\* stores no attempt.
C14_NoQuestionsNoAttempt ==
    [][(/\ call'.op = "create"
        /\ ValidMockExamRequest(call'.request)
        /\ Available(call'.request) = 0)
       => /\ response'.status = 400
          /\ response'.detail = "No questions available"
          /\ exam_attempts' = exam_attempts]_vars

\* C14 witness: a Chemistry exam was refused while the bank held questions
\* of another subject, and no attempt is stored.
C14_Witness ==
    /\ call.op = "create"
    /\ call.request.subject = "Chemistry"
    /\ past_questions # <<>>
    /\ response.status = 400
    /\ exam_attempts = <<>>

\* C15: on the bank path, a create_mock_exam whose body leaves
\* number_of_questions out is served as a request for 50 questions, and one
\* whose body leaves time_limit_minutes out gets an attempt, and an answer,
\* with a time limit of 90 minutes.
C15_BankPathDefaults ==
    [][\A body \in CreateBodies :
          (/\ CreateMockExam(1, ParseMockExamRequest(body))
           /\ response'.status = 200
           /\ QuestionsPoolDb(ParseMockExamRequest(body)) # <<>>)
          => /\ body.number_of_questions = NoneOpt
                  => Len(response'.body.questions)
                       = Min(50, Len(QuestionsPoolDb(ParseMockExamRequest(body))))
             /\ body.time_limit_minutes = NoneOpt
                  => /\ response'.body.time_limit_minutes = 90
                     /\ exam_attempts'[Len(exam_attempts')].time_limit_minutes = 90]_vars

----------------------------------------------------------------------------
(* Properties of the question bank.                                        *)

\* The rows of a table with the key (exam_type, subject, year, number).
RowsWithKey(table, exam_type, subject, year, number) ==
    {j \in DOMAIN table :
        /\ table[j].exam_type = exam_type /\ table[j].subject = subject
        /\ table[j].year = year /\ table[j].question_number = number}

C17_EmptyExtractionIsClientError ==
    [][\A year \in UploadYears :
          (/\ PaperBlank.questions = <<>>
           /\ UploadPastQuestions(1, TRUE, "WAEC", "Mathematics", year, PaperBlank))
          => /\ response'.status \in 400..499
             /\ past_questions' = past_questions]_vars

----------------------------------------------------------------------------
(* Properties of the dashboard.                                            *)

\* The number of consecutive days, counted backward from today, on each of
\* which there is activity.
ConsecutiveDays(dates, today) ==
    CHOOSE n \in 0..Cardinality(dates) :
        /\ \A k \in 0..(n - 1) : (today - k) \in dates
        /\ (today - n) \notin dates

\* C18: the study streak of the dashboard is the number of consecutive
\* days, counted backward from today, on each of which the user solved a
\* question; it stops at the first day without activity.
C18_StreakCountsConsecutiveDays ==
    [][GetStudentDashboard(1, Today)
         => response'.body.study_streak_days
              = ConsecutiveDays(ActivityDates(question_history, 1), Today)]_vars

\* The rows of user_subjects that belong to user u.
RowsOfUser(u) == {i \in DOMAIN user_subjects : user_subjects[i].user_id = u}

\* The rows of user u with enough attempts to be eligible as the weakest.
EligibleRows(u) ==
    {i \in RowsOfUser(u) :
        user_subjects[i].total_questions_attempted >= SufficientAttempts}

\* C19 as stated: weakest_subject is null exactly when no subject of the
\* user has at least 5 attempted questions, and otherwise it is a subject
\* with at least 5 attempts whose accuracy correct_answers /
\* total_questions_attempted is minimal among the subjects with at least 5.
C19_WeakestHasMinimalAccuracy ==
    (call.op = "dashboard" /\ response.status = 200)
    => /\ (response.body.weakest_subject = NONE) <=> (EligibleRows(call.user) = {})
       /\ EligibleRows(call.user) # {}
          => \E i \in EligibleRows(call.user) :
                /\ user_subjects[i].subject_name = response.body.weakest_subject
                /\ \A j \in EligibleRows(call.user) :
                      user_subjects[i].correct_answers
                          * user_subjects[j].total_questions_attempted
                        <= user_subjects[j].correct_answers
                             * user_subjects[i].total_questions_attempted

\* Whether hundredths is the accuracy of a row rounded to two decimals: it
\* lies within half a hundredth of 100 * correct_answers / attempted (0 for
\* a row without attempts).
IsRoundedAccuracy(hundredths, row) ==
    LET exact == 100 * 100 * row.correct_answers
        reported == hundredths * row.total_questions_attempted
        distance == IF exact >= reported THEN exact - reported ELSE reported - exact
    IN  IF row.total_questions_attempted = 0 THEN hundredths = 0
        ELSE 2 * distance <= row.total_questions_attempted

\* Whether an entry of subject_performance reports a row of user_subjects.
Reports(entry, row) ==
    /\ entry.subject = row.subject_name
    /\ entry.questions_attempted = row.total_questions_attempted
    /\ IsRoundedAccuracy(entry.accuracy, row)

\* C19 (amended): weakest_subject is null exactly when no subject of the
\* user has at least 5 attempted questions, and otherwise it is a subject
\* with at least 5 attempts whose accuracy, rounded to two decimals as the
\* dashboard reports it in subject_performance, is minimal among the
\* subjects with at least 5.
C19_WeakestHasMinimalReportedAccuracy ==
    (call.op = "dashboard" /\ response.status = 200)
    => LET reported == response.body.subject_performance IN
       /\ Len(reported) = Cardinality(RowsOfUser(call.user))
       /\ \A i \in RowsOfUser(call.user) :
             \E e \in DOMAIN reported : Reports(reported[e], user_subjects[i])
       /\ (response.body.weakest_subject = NONE) <=> (EligibleRows(call.user) = {})
       /\ EligibleRows(call.user) # {}
          => \E e \in DOMAIN reported :
                /\ reported[e].subject = response.body.weakest_subject
                /\ reported[e].questions_attempted >= SufficientAttempts
                /\ \A f \in DOMAIN reported :
                      reported[f].questions_attempted >= SufficientAttempts
                      => reported[e].accuracy <= reported[f].accuracy

\* C19 witness: the dashboard was read by a student whose subjects have
\* 1 of 107 and 1 of 108 answers right (both 0.93 when rounded) and a third
\* subject with no answer right of 4; the weakest subject is the first.
C19_Witness ==
    /\ call.op = "dashboard"
    /\ response.status = 200
    /\ user_subjects[2].total_questions_attempted = 107
    /\ user_subjects[3].total_questions_attempted = 108
    /\ user_subjects[4].total_questions_attempted = 4
    /\ user_subjects[4].correct_answers = 0
    /\ response.body.weakest_subject = "Mathematics"

----------------------------------------------------------------------------
(* Properties of concurrent submissions.                                   *)

\* The requests that were answered with the result of the attempt.
Succeeded == {r \in DOMAIN sessions :
                sessions[r].pc = "done" /\ sessions[r].response.status = 200}

\* C20: under every interleaving of two submissions of the same ungraded
\* attempt, at most one of them succeeds, every other one that got as far
\* as the attempt is rejected as already submitted, and the counters of the
\* subject receive total_questions and correct_count at most once.
C20_ConcurrentSubmitsGradeOnce ==
    /\ Cardinality(Succeeded) <= 1
    /\ \A r \in DOMAIN sessions :
          (sessions[r].pc = "done" /\ Succeeded # {} /\ r \notin Succeeded
           /\ sessions[r].submission.exam_id = 1
           /\ sessions[r].response.status # 500)
          => sessions[r].response.detail = "Exam already submitted"
    /\ user_subjects[1].total_questions_attempted <= exam_attempts[1].total_questions
    /\ user_subjects[1].correct_answers <= exam_attempts[1].correct_count

----------------------------------------------------------------------------
(* Properties of concurrent counter updates.                               *)

\* The requests that committed.
Committed == {r \in DOMAIN sessions :
                sessions[r].pc = "done" /\ sessions[r].response.status = 200}

\* The sum of f over the committed requests 1..n.
RECURSIVE AttemptedBy(_)
AttemptedBy(n) ==
    IF n = 0 THEN 0
    ELSE AttemptedBy(n - 1)
           + (IF n \notin Committed THEN 0
              ELSE IF sessions[n].submission.exam_id # 0
                THEN sessions[n].exam[1].total_questions
              ELSE IF sessions[n].subject = "Mathematics" THEN 1 ELSE 0)

RECURSIVE CorrectBy(_)
CorrectBy(n) ==
    IF n = 0 THEN 0
    ELSE CorrectBy(n - 1)
           + (IF n \in Committed /\ sessions[n].submission.exam_id # 0
              THEN sessions[n].exam[1].correct_count ELSE 0)

\* C21: no counter update is lost: the Mathematics row of the student
\* (counters 0 at first) holds the sum of the increments of the requests
\* that committed, the attempt's total_questions and correct_count for a
\* submission and one attempted question for each solved question.
C21_NoCounterUpdateLost ==
    /\ user_subjects[1].total_questions_attempted = AttemptedBy(Len(sessions))
    /\ user_subjects[1].correct_answers = CorrectBy(Len(sessions))

----------------------------------------------------------------------------
(* Properties of the recommendations.                                      *)

\* The recommendations that submit_exam returns for an answer map sent for
\* an attempt.
RecommendationsFor(exam, answers) ==
    LET graded == Grade(exam, answers)
    IN  Recommendations(ScorePercentage(graded.correct_count, exam.total_questions),
                        WeakTopicsNames(graded.weak_topics))

\* The numbers of recommendations that some answer map of RepeatAnswerMaps
\* gets for some attempt.
RecommendationCounts ==
    { Len(RecommendationsFor(exam_attempts[i], answers)) :
        i \in DOMAIN exam_attempts, answers \in RepeatAnswerMaps(exam_attempts[1]) }

\* C22 as stated: each of the four recommendation counts is returned by
\* some submit_exam: zero, one, two and all three entries.
C22_EveryCountReachable ==
    \A n \in 0..3 : n \in RecommendationCounts

\* C22 (amended): zero, one and two recommendations are each returned by
\* some submit_exam (the state of C22_Witness holds one attempt of each);
\* all three never are, because fundamentals (score below 50) and
\* congratulations (score of 70 or more) exclude each other.
C22_ZeroToTwoReachableNeverThree ==
    (call.op = "submit" /\ response.status = 200)
    => /\ Len(response.body.recommendations) <= 2
       /\ ~(\E i, j \in DOMAIN response.body.recommendations :
               /\ response.body.recommendations[i] = "fundamentals"
               /\ response.body.recommendations[j] = "congratulations")

\* C22 witness: three attempts were graded, one with no recommendation, one
\* with one and one with two; the last answer carried two.
C22_Witness ==
    /\ \A i \in DOMAIN exam_attempts : exam_attempts[i].completed_at # NONE
    /\ { Len(Recommendations(exam_attempts[i].score_percentage,
                              exam_attempts[i].weak_topics[1])) :
            i \in DOMAIN exam_attempts } = 0..2
    /\ call.op = "submit"
    /\ response.status = 200
    /\ response.body.recommendations = << "fundamentals", "weak-topics" >>

----------------------------------------------------------------------------
(* Properties of the video lookup.                                         *)

\* C23: search_educational_video returns None only after the fallback
\* query has been sent too: whenever no video is returned, the primary
\* query and then the query ending in "tutorial" were sent.
C23_NoVideoOnlyAfterFallback ==
    (call.op = "search-video" /\ response.body.video = NONE)
    => Len(response.body.queries) = 2

----------------------------------------------------------------------------
(* Properties of question solving.                                         *)

\* C24: when the AI call of a solve_question fails, the AI was called
\* once, the request ends with a service error (500), and nothing is
\* stored: no question_history row, and no user_subjects row added or
\* counted up.
C24_FailedSolveChangesNothing ==
    [][\A u \in DOMAIN users, request \in SolveRequests, solution_data \in Solutions :
          (/\ solution_data.error
           /\ TruthyStr(request.question_text) \/ TruthyStr(request.question_image)
           /\ SolveQuestion(u, request, solution_data, Today))
          => /\ response'.status = 500
             /\ response'.body.ai_calls = 1
             /\ question_history' = question_history
             /\ user_subjects' = user_subjects
             /\ users' = users]_vars

\* C24 witness: a registered student's text question was answered with the
\* service error; no question is in the history.
C24_Witness ==
    /\ call.op = "solve"
    /\ response.status = 500
    /\ response.detail = "AI service error"
    /\ response.body.ai_calls = 1
    /\ user_subjects # <<>>
    /\ question_history = <<>>
    /\ \A i \in DOMAIN user_subjects : user_subjects[i].total_questions_attempted = 0

----------------------------------------------------------------------------
(* Properties of repeated attempts.                                        *)

\* Whether two attempts have the same question snapshot, answer key and
\* total_questions.
SameQuestions(a, b) ==
    /\ a.questions = b.questions
    /\ a.correct_answers = b.correct_answers
    /\ a.total_questions = b.total_questions

----------------------------------------------------------------------------
(* Properties of the stored results.                                       *)

\* C26: every attempt, graded or not, has 0 <= correct_count <=
\* total_questions and 0 <= score_percentage <= 100, whatever answer map it
\* was submitted with.
C26_ResultsWithinRange ==
    \A i \in DOMAIN exam_attempts :
       /\ 0 <= exam_attempts[i].correct_count
       /\ exam_attempts[i].correct_count <= exam_attempts[i].total_questions
       /\ 0 <= exam_attempts[i].score_percentage
       /\ exam_attempts[i].score_percentage <= 100

\* C26 witness: the attempt of five questions was graded with a map of four
\* entries, all of them right.
C26_Witness ==
    /\ exam_attempts[1].completed_at # NONE
    /\ Len(exam_attempts[1].user_answers) = 4
    /\ exam_attempts[1].correct_count = 4
    /\ exam_attempts[1].score_percentage = 80

\* C27: every user_subjects row has 0 <= correct_answers <=
\* total_questions_attempted, after any sequence of registrations, profile
\* updates, solved questions and graded exams.  It holds when the requests
\* run one after the other (SpecSubjects); under SpecCounters a solved
\* question that read the row before a grading committed writes its own
\* total_questions_attempted over the graded one.
C27_CorrectWithinAttempted ==
    \A i \in DOMAIN user_subjects :
       /\ 0 <= user_subjects[i].correct_answers
       /\ user_subjects[i].correct_answers
            <= user_subjects[i].total_questions_attempted

\* C28: a submit_exam whose answer map holds a position outside
\* 1..total_questions leaves the attempt ungraded and ends in an error, so
\* every position stored in a graded attempt's user_answers lies in
\* 1..total_questions.
C28_OutOfRangePositionNeverGrades ==
    /\ \A e \in DOMAIN exam_attempts :
          exam_attempts[e].completed_at # NONE =>
             \A i \in DOMAIN exam_attempts[e].user_answers :
                \E n \in 1..exam_attempts[e].total_questions :
                   exam_attempts[e].user_answers[i].q_num = PyStr(n)
    /\ (/\ call.op = "submit"
        /\ call.exam_id \in DOMAIN exam_attempts
        /\ \E i \in DOMAIN call.answers :
              call.answers[i].q_num
                 \notin 1..exam_attempts[call.exam_id].total_questions)
       => /\ exam_attempts[call.exam_id].completed_at = NONE
          /\ response.status # 200

\* C29: a student's parent link is write-once: link_child_to_parent sets
\* parent_id only when it is null and the account is a student; once set, a
\* request of the same parent succeeds and changes nothing, a request of any
\* other parent is rejected, and parent_id never changes afterwards.
C29_ParentLinkIsWriteOnce ==
    [][ /\ DOMAIN users' = DOMAIN users
        /\ \A i \in DOMAIN users :
              /\ users[i].parent_id # 0 => users'[i].parent_id = users[i].parent_id
              /\ users'[i] # users[i] =>
                    /\ users[i].parent_id = 0
                    /\ users[i].role = "student"
                    /\ users[i].email = call'.request.child_email
                    /\ users'[i] = [users[i] EXCEPT !.parent_id = call'.user]
                    /\ response'.status = 200
              /\ (/\ call'.op = "link-child"
                  /\ users[i].email = call'.request.child_email
                  /\ users[i].parent_id # 0)
                 => /\ users' = users
                    /\ IF users[i].parent_id = call'.user
                         THEN response'.status = 200 /\ response'.body.child_id = i
                         ELSE response'.status = 400 ]_vars

\* C29 witness: Ada was linked to the first parent, the second parent's
\* request for her has just been rejected, and the link is as it was.
C29_Witness ==
    /\ users[1].parent_id = 3
    /\ users[2].parent_id = 4
    /\ call = CallLink(4, users[1].email)
    /\ response.status = 400
    /\ response.detail = "This child account is already linked to another parent"

\* The plans of user u and the active ones among them.
PlansOf(u) == {i \in DOMAIN study_plans : study_plans[i].user_id = u}

ActivePlansOf(u) == {i \in PlansOf(u) : study_plans[i].is_active}

OnlyLatestPlanActive ==
    \A u \in DOMAIN users :
       /\ Cardinality(ActivePlansOf(u)) <= 1
       /\ PlansOf(u) # {} =>
             ActivePlansOf(u) = {CHOOSE i \in PlansOf(u) : \A j \in PlansOf(u) : j <= i}

\* C30: after any sequence of generate_study_plan calls each user has at
\* most one active plan, the most recently generated one; a call whose AI
\* call fails stores no plan and leaves the active plan active.
C30_OnlyLatestPlanActive ==
    [][ /\ OnlyLatestPlanActive'
        /\ \A u \in DOMAIN users, request \in PlanRequests, outcome \in PlanOutcomes :
              (GenerateStudyPlan(u, request, outcome, Today) /\ outcome.error # NONE)
                 => /\ study_plans' = study_plans
                    /\ response'.status = 500 ]_vars

\* C30 witness: the first user's second plan replaced the first one, and a
\* third call of that user, whose AI call failed, has left it active.
C30_Witness ==
    /\ Len(study_plans) = 2
    /\ PlansOf(1) = {1, 2}
    /\ ~study_plans[1].is_active
    /\ study_plans[2].is_active
    /\ call.op = "generate-plan" /\ call.user = 1
    /\ response.status = 500
    /\ response.detail = "AI service error: timeout"

====
